---- MODULE Spec2Model ----
(***************************************************************************)
(* State-machine model of the PTY session manager of datstarkey/workbench  *)
(* (src-tauri/src/pty.rs): the session registry, spawn, the per-session    *)
(* reader / emitter / activity-monitor / startup-command threads, and the  *)
(* caller-facing write, resize, kill and project_path_for_session.         *)
(*                                                                         *)
(* A session instance is one successful or failed call of spawn; instance  *)
(* i owns its own PtySession handle, channels and threads.  The session id *)
(* of an instance is a caller-supplied input, so two instances may carry   *)
(* the same id.  Text is modelled as sequences of byte values.             *)
(***************************************************************************)
EXTENDS Integers, Sequences, FiniteSets, TLC

\* ---------------------------------------------------------------- bounds
MaxInst == 2
MaxStream == 3
MaxCalls == 2
\* Scaled-down program constants (pty.rs:14 and pty.rs:17).
PTY_READ_BUFFER_SIZE == 2
PTY_DATA_CHANNEL_CAPACITY == 2
\* Length in bytes of every write payload and of a startup command line.
WriteLen == 2
\* Number of request_refresh calls, and of direct calls of the dispatcher's
\* enqueue_request and take_payload_if_latest.
MaxRequests == 3
MaxDispatchCalls == 4
\* Number of polls of the GitHub poller.
MaxPolls == 3
\* Length of the list passed to set_tracked_projects.
MaxTracked == 2
\* Length of the list passed to sync_projects.
MaxSynced == 2
\* Length in characters of the command of a Bash hook.
MaxCommandLen == 4

Inst == 1..MaxInst
Ids == {"s1", "s2"}
Callers == {"c1", "c2"}
NoInst == 0
NoPath == "none"
Free == "free"

\* Byte values the shell may print: 'a' (97), the two bytes of U+00E9 (195, 169)
\* and a byte that no UTF-8 text holds (255).
OutputBytes == {97, 195, 169, 255}

\* ------------------------------------------------------- sequence helpers
RECURSIVE SeqsUpTo(_, _)
SeqsUpTo(S, n) ==
    IF n = 0 THEN {<<>>}
    ELSE LET shorter == SeqsUpTo(S, n - 1)
         IN  shorter \cup { Append(q, b) : q \in {r \in shorter : Len(r) = n - 1}, b \in S }

RECURSIVE Flatten(_)
Flatten(ss) == IF ss = <<>> THEN <<>> ELSE Head(ss) \o Flatten(Tail(ss))

Drop(q, n) == SubSeq(q, n + 1, Len(q))
Take(q, n) == SubSeq(q, 1, n)

\* ------------------------------------------------ std::str::from_utf8
IsCont(b) == b >= 128 /\ b <= 191

\* Width announced by a lead byte (0: the byte cannot start a character).
Utf8CharWidth(b) ==
    IF b < 128 THEN 1
    ELSE IF b >= 194 /\ b <= 223 THEN 2
    ELSE IF b >= 224 /\ b <= 239 THEN 3
    ELSE IF b >= 240 /\ b <= 244 THEN 4
    ELSE 0

\* The range the second byte of a character must lie in, given its lead byte.
SecondOk(lead, b) ==
    IF lead = 224 THEN b >= 160 /\ b <= 191
    ELSE IF lead = 237 THEN b >= 128 /\ b <= 159
    ELSE IF lead = 240 THEN b >= 144 /\ b <= 191
    ELSE IF lead = 244 THEN b >= 128 /\ b <= 143
    ELSE IsCont(b)

\* Whether a whole valid character starts at position k of bytes.
CharAt(bytes, k) ==
    LET w == Utf8CharWidth(bytes[k])
    IN  /\ w > 0
        /\ k + w - 1 <= Len(bytes)
        /\ w >= 2 => SecondOk(bytes[k], bytes[k + 1])
        /\ \A j \in 2..(w - 1) : IsCont(bytes[k + j])

\* from_utf8(chunk): Ok gives chunk.len(), Err(e) gives e.valid_up_to().
RECURSIVE ValidUpToFrom(_, _)
ValidUpToFrom(bytes, k) ==
    IF k > Len(bytes) THEN Len(bytes)
    ELSE IF CharAt(bytes, k) THEN ValidUpToFrom(bytes, k + Utf8CharWidth(bytes[k]))
    ELSE k - 1

valid_up_to(bytes) == ValidUpToFrom(bytes, 1)

\* ------------------------------------------------ update_activity_state
NoEvent == [name |-> "none"]

ActivityEvent(session_id, flag) ==
    [name |-> "terminal:activity", session_id |-> session_id, active |-> flag]

\* Mutant: a disconnect leaves the state as it is and emits nothing.
update_activity_state_KeepOnDisconnect(session_id, act, signal) ==
    IF ~act /\ signal = "Data"
    THEN <<TRUE, ActivityEvent(session_id, TRUE)>>
    ELSE IF act /\ signal = "Timeout"
    THEN <<FALSE, ActivityEvent(session_id, FALSE)>>
    ELSE <<act, NoEvent>>

\* Mutant: every Data signal yields an activity(true) event.
update_activity_state_EventOnEveryData(session_id, act, signal) ==
    IF signal = "Data"
    THEN <<TRUE, ActivityEvent(session_id, TRUE)>>
    ELSE IF act /\ signal \in {"Timeout", "Disconnected"}
    THEN <<FALSE, ActivityEvent(session_id, FALSE)>>
    ELSE <<act, NoEvent>>

update_activity_state(session_id, act, signal) ==
    IF ~act /\ signal = "Data"
    THEN <<TRUE, ActivityEvent(session_id, TRUE)>>
    ELSE IF act /\ signal \in {"Timeout", "Disconnected"}
    THEN <<FALSE, ActivityEvent(session_id, FALSE)>>
    ELSE <<act, NoEvent>>

\* ------------------------------------------------ resolve_repo_root
\* The run of `git rev-parse --show-toplevel` is an input: git.status is
\* "error" when the command cannot be run, "failed" when it exits with a
\* non-success status and "ok" otherwise; git.stdout is what it printed, as a
\* sequence of pieces of text, the white-space pieces being " " and "\n".
Whitespace == {" ", "\n"}

RECURSIVE TrimStart(_)
TrimStart(q) == IF q # <<>> /\ Head(q) \in Whitespace THEN TrimStart(Tail(q)) ELSE q

RECURSIVE TrimEnd(_)
TrimEnd(q) ==
    IF q # <<>> /\ q[Len(q)] \in Whitespace THEN TrimEnd(SubSeq(q, 1, Len(q) - 1)) ELSE q

RECURSIVE Join(_)
Join(q) == IF q = <<>> THEN "" ELSE Head(q) \o Join(Tail(q))

resolve_repo_root(git) ==
    IF git.status # "ok" THEN NoPath
    ELSE LET repo_root == Join(TrimEnd(TrimStart(git.stdout)))
         IN  IF repo_root = "" THEN NoPath ELSE repo_root

\* resolve_repo_root(&project_path).unwrap_or(project_path.clone())
ResolvedProjectPath(project_path, git) ==
    IF resolve_repo_root(git) = NoPath THEN project_path ELSE resolve_repo_root(git)

\* The two maps of the PtyManager, each behind a Mutex of its own.
RegistryMaps == {"sessions", "session_project_paths"}

\* ------------------------------------------------ the refresh dispatcher
\* A project path is a sequence of pieces of text, white space being the
\* pieces " " and "\n"; the map of pending refreshes is keyed by the path as
\* it was given, untrimmed.
RefreshPaths == {<<"/repo">>, <<" ", "/repo">>, <<" ">>, <<>>}
Sources == {"git-watcher", "claude-hook"}
Triggers == {"git-dir-change", "post-tool-use-bash"}

\* No entry under a key of the pending map (an entry has a generation >= 1).
NoPending == [generation |-> 0, source |-> "none", trigger |-> "none"]

\* ProjectRefreshRequestedEvent
ProjectRefreshRequestedEvent(project_path, source, trigger) ==
    [name |-> "project:refresh-requested", project_path |-> project_path,
     source |-> source, trigger |-> trigger]

NoPayload == [name |-> "none"]

\* project_path.trim().is_empty()
IsBlank(project_path) == Join(TrimEnd(TrimStart(project_path))) = ""

\* ----------------------------------------------------- the GitHub poller
\* The projects polled, as sequences of pieces of text.
PollProjects == {<<"/repo">>, <<"/other">>}

\* No entry under a path of the poller's project map.
NoProject == [persistent |-> FALSE, due |-> FALSE, present |-> FALSE]

\* PollProjectState: next_poll_at is kept as `due`, whether it has been reached.
PollProjectState(persistent, due) == [persistent |-> persistent, due |-> due, present |-> TRUE]

\* ---------------------------------------------------------- the GitWatcher
\* The project paths of the workspace, as PathBufs.
WatchPaths == {<<"/repo/a">>, <<"/repo/b">>}

\* No call recorded yet.
NoCall == [op |-> "none"]

\* ------------------------------------------------------------- the state
VARIABLES
    sessions,                \* PtyManager.sessions: id -> instance (NoInst: absent)
    session_project_paths,   \* PtyManager.session_project_paths: id -> path (NoPath: absent)
    guard,                   \* registry map -> thread that holds its Mutex (Free: unlocked)
    nSpawn,                  \* number of spawn calls made so far
    sid,                     \* instance -> session id of its spawn call
    spPc,                    \* instance -> position of its spawn call
    spRes,                   \* instance -> result of its spawn call
    resolved,                \* instance -> resolved_project_path
    startup,                 \* instance -> whether a startup command was given
    child,                   \* instance -> "none" | "running" | "ok" | "failed"
    ptyOut,                  \* instance -> bytes the shell may still produce
    ptyIn,                   \* instance -> PTY input: <<writer, n>> is byte n of a write of writer
    winSize,                 \* instance -> terminal size set by spawn / resize
    lock,                    \* instance -> holder of the per-session mutex
    rdPc, carry, pend,       \* reader thread: position, carry-over, chunk being sent
    chan,                    \* data channel (sync_channel) of each instance
    emPc, batch, exitCode,   \* emitter thread: position, batch, exit code computed
    acPc, active, pulses,    \* activity thread: position, flag, queued pulses
    stPc, stN,               \* startup-command thread: position, bytes written
    termEvents,              \* instance -> terminal:data / terminal:exit events, in order
    actEvents,               \* instance -> terminal:activity events, in order
    callPc, callOp, callSid, callH, callRes, callN,   \* caller threads
    nCalls,                  \* caller -> number of operations it has started
    bytesRead,               \* history: instance -> all bytes the reader has read
    handed,                  \* history: instance -> chunks handed to send_output_chunk
    received,                \* history: instance -> chunks the emitter took from the channel
    pulsesSent,              \* history: instance -> number of pulses sent
    lastAct,                 \* history: instance -> last transition of the activity monitor
    removedSince,            \* history: instance -> its id was removed since it was inserted
    pending,                 \* RefreshDispatcher.pending: project path -> entry (NoPending: absent)
    reqs,                    \* the request_refresh calls so far, each with its timer thread
    refreshEvents,           \* project:refresh-requested events emitted so far
    dispatchLog,             \* history: the direct enqueue_request / take_payload_if_latest calls
    previous_pr_states,      \* PollerState.previous_pr_states: the set of <<key, state>> entries
    pollLog,                 \* history: the polls so far, each with the branches it reported
    projects,                \* PollerState.projects: path -> entry (NoProject: absent)
    tracked,                 \* history: the list passed to the last set_tracked_projects
    wkPc,                    \* GitHub poller worker thread: position
    wkDue,                   \* worker: the due projects still to poll, as <<path, persistent>>
    wkNow,                   \* worker in take_due_projects: the paths whose next_poll_at is not after its `now`
    stop,                    \* GitHubPoller.stop
    watched_paths,           \* GitWatcher.watched_paths
    watches,                 \* the file watcher: the <<git directory, file>> it watches
    git_dirs,                \* file system: the projects' .git entries and what is in them
    lastWatcherCall,         \* history: the call that returned last, until the next sync begins
    syncCall,                \* the sync_projects call in progress: its locals
    cmdCall,                 \* the watch_project or unwatch_project command in progress
    hookCall                 \* history: the last should_emit_project_refresh_for_hook call

vars == <<sessions, session_project_paths, guard, nSpawn, sid, spPc, spRes, resolved, startup,
          child, ptyOut, ptyIn, winSize, lock, rdPc, carry, pend, chan, emPc, batch,
          exitCode, acPc, active, pulses, stPc, stN, termEvents, actEvents,
          callPc, callOp, callSid, callH, callRes, callN, nCalls,
          bytesRead, handed, received, pulsesSent, lastAct, removedSince,
          pending, reqs, refreshEvents, dispatchLog, previous_pr_states, pollLog,
          projects, tracked, wkPc, wkDue, wkNow, stop,
          watched_paths, watches, git_dirs, lastWatcherCall, syncCall, cmdCall, hookCall>>

regVars == <<sessions, session_project_paths, guard>>
spawnVars == <<nSpawn, sid, spPc, spRes, resolved, startup>>
ptyVars == <<child, ptyOut, ptyIn, winSize>>
readerVars == <<rdPc, carry, pend, bytesRead, handed>>
emitterVars == <<emPc, batch, exitCode, received, pulsesSent>>
activityVars == <<acPc, active, actEvents, lastAct>>
callVars == <<callPc, callOp, callSid, callH, callRes, callN, nCalls>>
\* The PtyManager with its sessions, threads and callers.
ptyManagerVars == <<regVars, spawnVars, ptyVars, lock, readerVars, chan, emitterVars,
                    pulses, activityVars, stPc, stN, termEvents, callVars, removedSince>>
\* The refresh dispatcher and the GitHub poller.
dispatcherVars == <<pending, reqs, refreshEvents, dispatchLog>>
trackVars == <<projects, tracked, wkPc, wkDue, wkNow, stop>>
pollerVars == <<previous_pr_states, pollLog, trackVars>>
\* The GitWatcher with the part of the file system it looks at, and the hook bridge.
watcherVars == <<watched_paths, watches, git_dirs, lastWatcherCall, syncCall, cmdCall>>
hookVars == <<hookCall>>
appVars == <<dispatcherVars, pollerVars, watcherVars, hookVars>>

NoStep == [op |-> "none"]

\* PtyManager::new(): both maps empty, nothing spawned.
Init ==
    /\ sessions = [s \in Ids |-> NoInst]
    /\ session_project_paths = [s \in Ids |-> NoPath]
    /\ guard = [m \in RegistryMaps |-> Free]
    /\ nSpawn = 0
    /\ sid = [i \in Inst |-> "s1"]
    /\ spPc = [i \in Inst |-> "idle"]
    /\ spRes = [i \in Inst |-> "none"]
    /\ resolved = [i \in Inst |-> NoPath]
    /\ startup = [i \in Inst |-> FALSE]
    /\ child = [i \in Inst |-> "none"]
    /\ ptyOut = [i \in Inst |-> <<>>]
    /\ ptyIn = [i \in Inst |-> <<>>]
    /\ winSize = [i \in Inst |-> 0]
    /\ lock = [i \in Inst |-> Free]
    /\ rdPc = [i \in Inst |-> "off"]
    /\ carry = [i \in Inst |-> <<>>]
    /\ pend = [i \in Inst |-> <<>>]
    /\ chan = [i \in Inst |-> <<>>]
    /\ emPc = [i \in Inst |-> "off"]
    /\ batch = [i \in Inst |-> <<>>]
    /\ exitCode = [i \in Inst |-> 0]
    /\ acPc = [i \in Inst |-> "off"]
    /\ active = [i \in Inst |-> FALSE]
    /\ pulses = [i \in Inst |-> 0]
    /\ stPc = [i \in Inst |-> "off"]
    /\ stN = [i \in Inst |-> 0]
    /\ termEvents = [i \in Inst |-> <<>>]
    /\ actEvents = [i \in Inst |-> <<>>]
    /\ callPc = [c \in Callers |-> "idle"]
    /\ callOp = [c \in Callers |-> "none"]
    /\ callSid = [c \in Callers |-> "s1"]
    /\ callH = [c \in Callers |-> NoInst]
    /\ callRes = [c \in Callers |-> "none"]
    /\ callN = [c \in Callers |-> 0]
    /\ nCalls = [c \in Callers |-> 0]
    /\ bytesRead = [i \in Inst |-> <<>>]
    /\ handed = [i \in Inst |-> <<>>]
    /\ received = [i \in Inst |-> <<>>]
    /\ pulsesSent = [i \in Inst |-> 0]
    /\ lastAct = [i \in Inst |-> NoStep]
    /\ removedSince = [i \in Inst |-> FALSE]
    /\ pending = [p \in RefreshPaths |-> NoPending]
    /\ reqs = <<>>
    /\ refreshEvents = <<>>
    /\ dispatchLog = <<>>
    /\ previous_pr_states = {}
    /\ pollLog = <<>>
    /\ projects = [p \in PollProjects |-> NoProject]
    /\ tracked = <<>>
    /\ wkPc = "loop"
    /\ wkDue = <<>>
    /\ wkNow = {}
    /\ stop = FALSE
    /\ watched_paths = {}
    /\ watches = {}
    /\ git_dirs = {}
    /\ lastWatcherCall = NoCall
    /\ syncCall = NoCall
    /\ cmdCall = NoCall
    /\ hookCall = NoCall

\* ----------------------------------------------------------------- events
DataEvent(session_id, data) ==
    [name |-> "terminal:data", session_id |-> session_id, data |-> data]

ExitEvent(session_id, exit_code) ==
    [name |-> "terminal:exit", session_id |-> session_id, exit_code |-> exit_code,
     signal |-> "None"]

\* What child.wait() returns once the shell is gone: a success status ("ok"),
\* a non-success status ("failed"), or an error instead of a status ("error").
WaitOutcomes == {"ok", "failed", "error"}

\* Mutant: a failed wait counts as success.
ExitCodeOf_ErrorAsSuccess(status) == IF status = "failed" THEN 1 ELSE 0

\* child.wait().map(|s| if s.success() { 0 } else { 1 }).unwrap_or(1)
ExitCodeOf(status) == IF status = "ok" THEN 0 ELSE 1

\* ------------------------------------------------------ registry primitives
\* get_session: the handle registered under the id, NoInst when there is none.
get_session(session_id) == sessions[session_id]

\* remove_session: the map without the id (the removed handle is get_session).
remove_session(session_id) == [sessions EXCEPT ![session_id] = NoInst]

\* project_path_for_session
project_path_for_session(session_id) == session_project_paths[session_id]

\* A MutexGuard of a registry map is a temporary of the statement that
\* locks the map: it is dropped when the statement ends.
Unlocked(m) == [guard EXCEPT ![m] = Free]

\* History: a removal of the id reaches every instance that carries it.
MarkRemoved(session_id) ==
    [i \in Inst |-> IF sid[i] = session_id /\ spPc[i] \notin {"idle", "insert_session"}
                    THEN TRUE ELSE removedSince[i]]

\* -------------------------------------------------------------------- spawn
SpawnErrors == {"Failed to open PTY", "Failed to spawn shell",
                "Failed to get PTY writer", "Failed to get PTY reader"}

\* Mutant: the session is registered as soon as the shell runs, before the
\* writer and the reader are taken.
SpawnCall_RegisterEarly(session_id, project_path, git, size, stream, st, outcome) ==
    LET i == nSpawn + 1
        shell == outcome \notin {"Failed to open PTY", "Failed to spawn shell"}
    IN
    /\ nSpawn < MaxInst
    /\ nSpawn' = i
    /\ sid' = [sid EXCEPT ![i] = session_id]
    /\ resolved' = [resolved EXCEPT ![i] = ResolvedProjectPath(project_path, git)]
    /\ startup' = [startup EXCEPT ![i] = st]
    /\ sessions' = IF shell THEN [sessions EXCEPT ![session_id] = i] ELSE sessions
    /\ spPc' = [spPc EXCEPT ![i] = IF outcome \in SpawnErrors THEN "done" ELSE "insert_session"]
    /\ spRes' = [spRes EXCEPT ![i] = IF outcome \in SpawnErrors THEN outcome ELSE @]
    /\ child' = [child EXCEPT ![i] = IF shell THEN "running" ELSE "none"]
    /\ ptyOut' = [ptyOut EXCEPT ![i] = IF outcome \in SpawnErrors THEN @ ELSE stream]
    /\ winSize' = [winSize EXCEPT ![i] = IF outcome \in SpawnErrors THEN @ ELSE size]
    /\ UNCHANGED <<appVars, session_project_paths, guard, ptyIn, lock, readerVars, chan, emitterVars, pulses,
                   activityVars, stPc, stN, termEvents, callVars, removedSince>>

\* spawn up to the construction of the PtySession: resolve the project path,
\* open the PTY, spawn the shell, take the writer and the reader.  Any of the
\* four fallible steps returns its error at once.  stream is what the shell
\* will print at most, st whether a startup command was passed.
SpawnCall(session_id, project_path, git, size, stream, st, outcome) ==
    LET i == nSpawn + 1 IN
    /\ nSpawn < MaxInst
    /\ nSpawn' = i
    /\ sid' = [sid EXCEPT ![i] = session_id]
    /\ resolved' = [resolved EXCEPT ![i] = ResolvedProjectPath(project_path, git)]
    /\ startup' = [startup EXCEPT ![i] = st]
    /\ IF outcome \in SpawnErrors
       THEN /\ spPc' = [spPc EXCEPT ![i] = "done"]
            /\ spRes' = [spRes EXCEPT ![i] = outcome]
            \* the shell was already spawned when the writer or reader fails
            /\ child' = [child EXCEPT ![i] =
                            IF outcome \in {"Failed to get PTY writer", "Failed to get PTY reader"}
                            THEN "running" ELSE "none"]
            /\ UNCHANGED <<ptyOut, winSize>>
       ELSE /\ spPc' = [spPc EXCEPT ![i] = "insert_session"]
            /\ spRes' = spRes
            /\ child' = [child EXCEPT ![i] = "running"]
            /\ ptyOut' = [ptyOut EXCEPT ![i] = stream]
            /\ winSize' = [winSize EXCEPT ![i] = size]
    /\ UNCHANGED <<appVars, regVars, ptyIn, lock, readerVars, chan, emitterVars, pulses,
                   activityVars, stPc, stN, termEvents, callVars, removedSince>>

\* Mutant: spawn goes on without registering the session.
SpawnInsertSession_Skipped(i) ==
    /\ spPc[i] = "insert_session"
    /\ spPc' = [spPc EXCEPT ![i] = "insert_path"]
    /\ UNCHANGED <<appVars, regVars, nSpawn, sid, spRes, resolved, startup, ptyVars,
                   lock, readerVars, chan, emitterVars, pulses, activityVars, stPc, stN,
                   termEvents, callVars, removedSince>>

\* self.sessions.lock().insert(session_id, session)
SpawnInsertSession(i) ==
    /\ spPc[i] = "insert_session"
    /\ sessions' = [sessions EXCEPT ![sid[i]] = i]
    /\ spPc' = [spPc EXCEPT ![i] = "insert_path"]
    /\ removedSince' = [removedSince EXCEPT ![i] = FALSE]
    /\ UNCHANGED <<appVars, session_project_paths, nSpawn, sid, spRes, resolved, startup, ptyVars,
                   lock, readerVars, chan, emitterVars, pulses, activityVars, stPc, stN,
                   termEvents, callVars>>
    /\ guard' = Unlocked("sessions")

\* self.session_project_paths.lock().insert(session_id, resolved_project_path)
SpawnInsertPath(i) ==
    /\ spPc[i] = "insert_path"
    /\ session_project_paths' = [session_project_paths EXCEPT ![sid[i]] = resolved[i]]
    /\ spPc' = [spPc EXCEPT ![i] = "threads"]
    /\ UNCHANGED <<appVars, sessions, nSpawn, sid, spRes, resolved, startup, ptyVars,
                   lock, readerVars, chan, emitterVars, pulses, activityVars, stPc, stN,
                   termEvents, callVars, removedSince>>
    /\ guard' = Unlocked("session_project_paths")

\* The channels are created and the activity, reader, emitter and (with a
\* startup command) startup threads are started; a started thread runs only
\* when it is scheduled, so starting them in one step loses no behaviour.
SpawnThreads(i) ==
    /\ spPc[i] = "threads"
    /\ spPc' = [spPc EXCEPT ![i] = "return"]
    /\ acPc' = [acPc EXCEPT ![i] = "recv"]
    /\ rdPc' = [rdPc EXCEPT ![i] = "read"]
    /\ emPc' = [emPc EXCEPT ![i] = "recv"]
    /\ stPc' = [stPc EXCEPT ![i] = IF startup[i] THEN "sleep" ELSE "off"]
    /\ UNCHANGED <<appVars, regVars, nSpawn, sid, spRes, resolved, startup, ptyVars, lock,
                   carry, pend, bytesRead, handed, chan, batch, exitCode, received,
                   pulsesSent, pulses, active, actEvents, lastAct, stN, termEvents,
                   callVars, removedSince>>

\* Ok(())
SpawnReturn(i) ==
    /\ spPc[i] = "return"
    /\ spPc' = [spPc EXCEPT ![i] = "done"]
    /\ spRes' = [spRes EXCEPT ![i] = "Ok"]
    /\ UNCHANGED <<appVars, regVars, nSpawn, sid, resolved, startup, ptyVars, lock, readerVars,
                   chan, emitterVars, pulses, activityVars, stPc, stN, termEvents, callVars,
                   removedSince>>

\* ---------------------------------------------------------------- the shell
\* The shell exits by itself, with a success or a failure status.
ChildExit(i, status) ==
    /\ child[i] = "running"
    /\ status \in WaitOutcomes
    /\ child' = [child EXCEPT ![i] = status]
    /\ UNCHANGED <<appVars, regVars, spawnVars, ptyOut, ptyIn, winSize, lock, readerVars, chan,
                   emitterVars, pulses, activityVars, stPc, stN, termEvents, callVars,
                   removedSince>>

\* ------------------------------------------------------------ reader thread
DataRxAlive(i) == emPc[i] # "done"
DataTxAlive(i) == rdPc[i] # "done"

\* reader.read(&mut buf) returned Ok(n), n > 0: the chunk is the carry-over
\* followed by the n bytes; its valid prefix is handed to send_output_chunk
\* and the rest becomes the carry-over (assigned here, where the prefix is
\* split off: the reader alone sees it).
ReaderRead(i, n) ==
    /\ rdPc[i] = "read"
    /\ n \in 1..PTY_READ_BUFFER_SIZE
    /\ n <= Len(ptyOut[i])
    /\ LET chunk == carry[i] \o Take(ptyOut[i], n)
           v == valid_up_to(chunk)
       IN  /\ bytesRead' = [bytesRead EXCEPT ![i] = @ \o Take(ptyOut[i], n)]
           /\ ptyOut' = [ptyOut EXCEPT ![i] = Drop(@, n)]
           /\ carry' = [carry EXCEPT ![i] = Drop(chunk, v)]
           /\ IF v > 0
              THEN /\ pend' = [pend EXCEPT ![i] = Take(chunk, v)]
                   /\ handed' = [handed EXCEPT ![i] = Append(@, Take(chunk, v))]
                   /\ rdPc' = [rdPc EXCEPT ![i] = "send"]
              ELSE UNCHANGED <<pend, handed, rdPc>>
    /\ UNCHANGED <<appVars, regVars, spawnVars, child, ptyIn, winSize, lock, chan, emitterVars,
                   pulses, activityVars, stPc, stN, termEvents, callVars, removedSince>>

\* Mutant: a full channel makes the reader go on without the chunk.
send_output_chunk_try_DropWhenFull(i) ==
    IF ~DataRxAlive(i)
    THEN /\ rdPc' = [rdPc EXCEPT ![i] = "done"]
         /\ chan' = chan
    ELSE IF Len(chan[i]) < PTY_DATA_CHANNEL_CAPACITY
    THEN /\ chan' = [chan EXCEPT ![i] = Append(@, pend[i])]
         /\ rdPc' = [rdPc EXCEPT ![i] = "read"]
    ELSE /\ rdPc' = [rdPc EXCEPT ![i] = "read"]
         /\ chan' = chan

\* Mutant: a full channel is reported like a dropped receiver.
send_output_chunk_try_FalseWhenFull(i) ==
    IF ~DataRxAlive(i) \/ Len(chan[i]) >= PTY_DATA_CHANNEL_CAPACITY
    THEN /\ rdPc' = [rdPc EXCEPT ![i] = "done"]
         /\ chan' = chan
    ELSE /\ chan' = [chan EXCEPT ![i] = Append(@, pend[i])]
         /\ rdPc' = [rdPc EXCEPT ![i] = "read"]

\* send_output_chunk, the try_send: Ok enqueues, Full goes on to the blocking
\* send, Disconnected returns false and the reader breaks.
send_output_chunk_try(i) ==
    IF ~DataRxAlive(i)
    THEN /\ rdPc' = [rdPc EXCEPT ![i] = "done"]
         /\ chan' = chan
    ELSE IF Len(chan[i]) < PTY_DATA_CHANNEL_CAPACITY
    THEN /\ chan' = [chan EXCEPT ![i] = Append(@, pend[i])]
         /\ rdPc' = [rdPc EXCEPT ![i] = "read"]
    ELSE /\ rdPc' = [rdPc EXCEPT ![i] = "blocked"]
         /\ chan' = chan

ReaderSend(i) ==
    /\ rdPc[i] = "send"
    /\ send_output_chunk_try(i)
    /\ UNCHANGED <<appVars, regVars, spawnVars, ptyVars, lock, carry, pend, bytesRead, handed,
                   emitterVars, pulses, activityVars, stPc, stN, termEvents, callVars,
                   removedSince>>

\* send_output_chunk, tx.send(data) after Full: waits for a free slot, or
\* fails when the receiver is dropped.
send_output_chunk_block(i) ==
    /\ ~DataRxAlive(i) \/ Len(chan[i]) < PTY_DATA_CHANNEL_CAPACITY
    /\ IF ~DataRxAlive(i)
       THEN /\ rdPc' = [rdPc EXCEPT ![i] = "done"]
            /\ chan' = chan
       ELSE /\ chan' = [chan EXCEPT ![i] = Append(@, pend[i])]
            /\ rdPc' = [rdPc EXCEPT ![i] = "read"]

ReaderBlockedSend(i) ==
    /\ rdPc[i] = "blocked"
    /\ send_output_chunk_block(i)
    /\ UNCHANGED <<appVars, regVars, spawnVars, ptyVars, lock, carry, pend, bytesRead, handed,
                   emitterVars, pulses, activityVars, stPc, stN, termEvents, callVars,
                   removedSince>>

\* reader.read returned Ok(0) or Err(_): the slave side is closed, which is
\* when the shell is gone.  The loop breaks and data_tx is dropped.
ReaderStop(i) ==
    /\ rdPc[i] = "read"
    /\ child[i] \in WaitOutcomes
    /\ rdPc' = [rdPc EXCEPT ![i] = "done"]
    /\ UNCHANGED <<appVars, regVars, spawnVars, ptyVars, lock, carry, pend, bytesRead, handed,
                   chan, emitterVars, pulses, activityVars, stPc, stN, termEvents, callVars,
                   removedSince>>

\* reader.read returned Ok(0) or Err(_) while the shell still runs (the shell
\* closed its terminal, or the read failed): the loop breaks all the same,
\* neither arm looks at the child.
ReaderBreak(i) ==
    /\ rdPc[i] = "read"
    /\ child[i] = "running"
    /\ rdPc' = [rdPc EXCEPT ![i] = "done"]
    /\ UNCHANGED <<appVars, regVars, spawnVars, ptyVars, lock, carry, pend, bytesRead, handed,
                   chan, emitterVars, pulses, activityVars, stPc, stN, termEvents, callVars,
                   removedSince>>

\* drop(rx): the owner of the receiving end gives it up while the sender
\* still has chunks to send, as the unit test of send_output_chunk does.
DropReceiver(i) ==
    /\ emPc[i] \notin {"off", "done"}
    /\ rdPc[i] # "done"
    /\ emPc' = [emPc EXCEPT ![i] = "done"]
    /\ UNCHANGED <<appVars, regVars, spawnVars, ptyVars, lock, readerVars, chan, batch, exitCode,
                   received, pulsesSent, pulses, activityVars, stPc, stN, termEvents, callVars,
                   removedSince>>

\* ------------------------------------------------------- the session mutex
\* Mutant: one mutex for all sessions.
LockFree_Global(i) == \A j \in Inst : lock[j] = Free

\* Arc<Mutex<PtySession>>: every session has a mutex of its own; lock() goes
\* through when no thread holds the mutex of that session.
LockFree(i) == lock[i] = Free

\* ----------------------------------------------------------- emitter thread
\* data_rx.recv(): Ok(data) starts a batch; Err (channel empty and data_tx
\* dropped) breaks out of the loop.  It blocks while the channel is empty and
\* the reader lives.
EmitterRecv(i) ==
    /\ emPc[i] = "recv"
    /\ IF chan[i] # <<>>
       THEN /\ batch' = [batch EXCEPT ![i] = @ \o Head(chan[i])]
            /\ received' = [received EXCEPT ![i] = Append(@, Head(chan[i]))]
            /\ chan' = [chan EXCEPT ![i] = Tail(@)]
            /\ emPc' = [emPc EXCEPT ![i] = "drain"]
       ELSE /\ ~DataTxAlive(i)
            /\ emPc' = [emPc EXCEPT ![i] = "flush"]
            /\ UNCHANGED <<batch, received, chan>>
    /\ UNCHANGED <<appVars, regVars, spawnVars, ptyVars, lock, readerVars, exitCode, pulsesSent,
                   pulses, activityVars, stPc, stN, termEvents, callVars, removedSince>>

\* Mutant: the drain takes the queued chunks off the channel without adding
\* them to the batch.
TryRecvLoop_Discard(i, after) ==
    IF chan[i] # <<>>
    THEN /\ received' = [received EXCEPT ![i] = Append(@, Head(chan[i]))]
         /\ chan' = [chan EXCEPT ![i] = Tail(@)]
         /\ UNCHANGED <<batch, emPc>>
    ELSE /\ emPc' = [emPc EXCEPT ![i] = after]
         /\ UNCHANGED <<batch, received, chan>>

\* One try_recv of a `while let Ok(data) = data_rx.try_recv()` loop: a queued
\* chunk joins the batch; on an empty channel the loop ends and control goes
\* to after.
TryRecvLoop(i, after) ==
    IF chan[i] # <<>>
    THEN /\ batch' = [batch EXCEPT ![i] = @ \o Head(chan[i])]
         /\ received' = [received EXCEPT ![i] = Append(@, Head(chan[i]))]
         /\ chan' = [chan EXCEPT ![i] = Tail(@)]
         /\ emPc' = emPc
    ELSE /\ emPc' = [emPc EXCEPT ![i] = after]
         /\ UNCHANGED <<batch, received, chan>>

\* What follows the drains: emit when the batch is not empty.
AfterDrain(i) == IF batch[i] # <<>> THEN "pulse" ELSE "recv"

\* The first drain; fast is last_emit.elapsed() < FAST_THRESHOLD, read when the
\* drain ends: when it holds the emitter sleeps and drains once more.
EmitterDrain(i, fast) ==
    /\ emPc[i] = "drain"
    /\ chan[i] # <<>> => ~fast
    /\ TryRecvLoop(i, IF fast THEN "coalesce" ELSE AfterDrain(i))
    /\ UNCHANGED <<appVars, regVars, spawnVars, ptyVars, lock, readerVars, exitCode, pulsesSent,
                   pulses, activityVars, stPc, stN, termEvents, callVars, removedSince>>

\* The drain after the COALESCE_YIELD sleep.
EmitterCoalesce(i) ==
    /\ emPc[i] = "coalesce"
    /\ TryRecvLoop(i, AfterDrain(i))
    /\ UNCHANGED <<appVars, regVars, spawnVars, ptyVars, lock, readerVars, exitCode, pulsesSent,
                   pulses, activityVars, stPc, stN, termEvents, callVars, removedSince>>

\* Mutant: the emitter goes on to the emission without sending the pulse.
EmitterPulse_Skipped(i) ==
    /\ emPc[i] = "pulse"
    /\ emPc' = [emPc EXCEPT ![i] = "emit"]
    /\ UNCHANGED <<appVars, regVars, spawnVars, ptyVars, lock, readerVars, chan, batch, exitCode,
                   received, pulsesSent, pulses, activityVars, stPc, stN, termEvents, callVars,
                   removedSince>>

\* activity_tx.send(())
EmitterPulse(i) ==
    /\ emPc[i] = "pulse"
    /\ pulses' = [pulses EXCEPT ![i] = @ + 1]
    /\ pulsesSent' = [pulsesSent EXCEPT ![i] = @ + 1]
    /\ emPc' = [emPc EXCEPT ![i] = "emit"]
    /\ UNCHANGED <<appVars, regVars, spawnVars, ptyVars, lock, readerVars, chan, batch, exitCode,
                   received, activityVars, stPc, stN, termEvents, callVars, removedSince>>

\* Mutant: the event gets a clone of the batch, which is not cleared.
EmitterEmit_KeepBatch(i) ==
    /\ emPc[i] = "emit"
    /\ termEvents' = [termEvents EXCEPT ![i] = Append(@, DataEvent(sid[i], batch[i]))]
    /\ emPc' = [emPc EXCEPT ![i] = "recv"]
    /\ UNCHANGED <<appVars, regVars, spawnVars, ptyVars, lock, readerVars, chan, batch, exitCode,
                   received, pulsesSent, pulses, activityVars, stPc, stN, callVars,
                   removedSince>>

\* handle.emit("terminal:data", { sid, std::mem::take(&mut batch) })
EmitterEmit(i) ==
    /\ emPc[i] = "emit"
    /\ termEvents' = [termEvents EXCEPT ![i] = Append(@, DataEvent(sid[i], batch[i]))]
    /\ batch' = [batch EXCEPT ![i] = <<>>]
    /\ emPc' = [emPc EXCEPT ![i] = "recv"]
    /\ UNCHANGED <<appVars, regVars, spawnVars, ptyVars, lock, readerVars, chan, exitCode,
                   received, pulsesSent, pulses, activityVars, stPc, stN, callVars,
                   removedSince>>

\* After the loop: drain what is left in the channel (the reader is gone, so
\* nothing is added meanwhile) and emit the batch if it is not empty.
EmitterFlush(i) ==
    /\ emPc[i] = "flush"
    /\ LET rest == batch[i] \o Flatten(chan[i])
       IN  /\ received' = [received EXCEPT ![i] = @ \o chan[i]]
           /\ chan' = [chan EXCEPT ![i] = <<>>]
           /\ batch' = [batch EXCEPT ![i] = <<>>]
           /\ IF rest # <<>>
              THEN /\ pulses' = [pulses EXCEPT ![i] = @ + 1]
                   /\ pulsesSent' = [pulsesSent EXCEPT ![i] = @ + 1]
                   /\ termEvents' = [termEvents EXCEPT ![i] =
                                        Append(@, DataEvent(sid[i], rest))]
              ELSE UNCHANGED <<pulses, pulsesSent, termEvents>>
    /\ emPc' = [emPc EXCEPT ![i] = "remove_session"]
    /\ UNCHANGED <<appVars, regVars, spawnVars, ptyVars, lock, readerVars, exitCode,
                   activityVars, stPc, stN, callVars, removedSince>>

\* Self::remove_session(&sessions_for_cleanup, &sid), its result dropped.
EmitterRemoveSession(i) ==
    /\ emPc[i] = "remove_session"
    /\ sessions' = remove_session(sid[i])
    /\ removedSince' = IF get_session(sid[i]) # NoInst THEN MarkRemoved(sid[i])
                       ELSE removedSince
    /\ emPc' = [emPc EXCEPT ![i] = "remove_path"]
    /\ UNCHANGED <<appVars, session_project_paths, spawnVars, ptyVars, lock, readerVars, chan,
                   batch, exitCode, received, pulsesSent, pulses, activityVars, stPc, stN,
                   termEvents, callVars>>
    /\ guard' = Unlocked("sessions")

\* session_project_paths_for_cleanup.lock().remove(&sid)
EmitterRemovePath(i) ==
    /\ emPc[i] = "remove_path"
    /\ session_project_paths' = [session_project_paths EXCEPT ![sid[i]] = NoPath]
    /\ emPc' = [emPc EXCEPT ![i] = "lock"]
    /\ UNCHANGED <<appVars, sessions, spawnVars, ptyVars, lock, readerVars, chan,
                   batch, exitCode, received, pulsesSent, pulses, activityVars, stPc, stN,
                   termEvents, callVars, removedSince>>
    /\ guard' = Unlocked("session_project_paths")

\* session_for_cleanup.lock()
EmitterLock(i) ==
    /\ emPc[i] = "lock"
    /\ LockFree(i)
    /\ lock' = [lock EXCEPT ![i] = "emitter"]
    /\ emPc' = [emPc EXCEPT ![i] = "wait"]
    /\ UNCHANGED <<appVars, regVars, spawnVars, ptyVars, readerVars, chan, batch, exitCode,
                   received, pulsesSent, pulses, activityVars, stPc, stN, termEvents,
                   callVars, removedSince>>

\* .child.wait() under the session lock, which is released at the end of the
\* statement; wait returns once the shell has exited.
EmitterWait(i) ==
    /\ emPc[i] = "wait"
    /\ child[i] \in WaitOutcomes
    /\ exitCode' = [exitCode EXCEPT ![i] = ExitCodeOf(child[i])]
    /\ lock' = [lock EXCEPT ![i] = Free]
    /\ emPc' = [emPc EXCEPT ![i] = "exit"]
    /\ UNCHANGED <<appVars, regVars, spawnVars, ptyVars, readerVars, chan, batch,
                   received, pulsesSent, pulses, activityVars, stPc, stN, termEvents,
                   callVars, removedSince>>

\* handle.emit("terminal:exit", ..); the thread ends, which drops data_rx and
\* activity_tx.
EmitterExit(i) ==
    /\ emPc[i] = "exit"
    /\ termEvents' = [termEvents EXCEPT ![i] = Append(@, ExitEvent(sid[i], exitCode[i]))]
    /\ emPc' = [emPc EXCEPT ![i] = "done"]
    /\ UNCHANGED <<appVars, regVars, spawnVars, ptyVars, lock, readerVars, chan, batch, exitCode,
                   received, pulsesSent, pulses, activityVars, stPc, stN, callVars,
                   removedSince>>

\* ---------------------------------------------------------- activity thread
ActivityTxAlive(i) == emPc[i] # "done"

\* activity_rx.recv_timeout(quiet_window): a queued pulse is Data; with none
\* queued it is Timeout while activity_tx lives and Disconnected after.
RecvTimeout(i) ==
    IF pulses[i] > 0 THEN "Data"
    ELSE IF ActivityTxAlive(i) THEN "Timeout"
    ELSE "Disconnected"

\* Mutant: the loop has no break, the thread polls the closed channel for ever.
ActivityStep_NoBreak(i, signal) ==
    /\ acPc[i] = "recv"
    /\ signal = RecvTimeout(i)
    /\ LET r == update_activity_state(sid[i], active[i], signal)
       IN  /\ active' = [active EXCEPT ![i] = r[1]]
           /\ actEvents' = [actEvents EXCEPT ![i] =
                               IF r[2] = NoEvent THEN @ ELSE Append(@, r[2])]
           /\ lastAct' = [lastAct EXCEPT ![i] =
                             [op |-> "update", was |-> active[i], signal |-> signal,
                              next |-> r[1], event |-> r[2]]]
    /\ pulses' = [pulses EXCEPT ![i] = IF signal = "Data" THEN @ - 1 ELSE @]
    /\ acPc' = [acPc EXCEPT ![i] = "recv"]
    /\ UNCHANGED <<appVars, regVars, spawnVars, ptyVars, lock, readerVars, chan, emitterVars,
                   stPc, stN, termEvents, callVars, removedSince>>

\* One iteration of the activity thread's loop.
ActivityStep(i, signal) ==
    /\ acPc[i] = "recv"
    /\ signal = RecvTimeout(i)
    /\ LET r == update_activity_state(sid[i], active[i], signal)
       IN  /\ active' = [active EXCEPT ![i] = r[1]]
           /\ actEvents' = [actEvents EXCEPT ![i] =
                               IF r[2] = NoEvent THEN @ ELSE Append(@, r[2])]
           /\ lastAct' = [lastAct EXCEPT ![i] =
                             [op |-> "update", was |-> active[i], signal |-> signal,
                              next |-> r[1], event |-> r[2]]]
    /\ pulses' = [pulses EXCEPT ![i] = IF signal = "Data" THEN @ - 1 ELSE @]
    /\ acPc' = [acPc EXCEPT ![i] = IF signal = "Disconnected" THEN "done" ELSE "recv"]
    /\ UNCHANGED <<appVars, regVars, spawnVars, ptyVars, lock, readerVars, chan, emitterVars,
                   stPc, stN, termEvents, callVars, removedSince>>

ActivityData(i) == ActivityStep(i, "Data")
ActivityTimeout(i) == ActivityStep(i, "Timeout")
ActivityDisconnected(i) == ActivityStep(i, "Disconnected")

\* ----------------------------------------------------- startup-command thread
\* After the STARTUP_COMMAND_DELAY_MS sleep: session_ref.lock()
StartupLock(i) ==
    /\ stPc[i] = "sleep"
    /\ LockFree(i)
    /\ lock' = [lock EXCEPT ![i] = "startup"]
    /\ stPc' = [stPc EXCEPT ![i] = "write"]
    /\ UNCHANGED <<appVars, regVars, spawnVars, ptyVars, readerVars, chan, emitterVars, pulses,
                   activityVars, stN, termEvents, callVars, removedSince>>

\* sess.writer.write_all(cmd_with_newline), one byte per step; its result is
\* dropped.  A write fails only once the shell is gone.  The guard is released
\* when the write is over.
StartupWrite(i, fails) ==
    /\ stPc[i] = "write"
    /\ fails => child[i] # "running"
    /\ IF fails
       THEN /\ ptyIn' = ptyIn
            /\ stN' = [stN EXCEPT ![i] = 0]
       ELSE /\ ptyIn' = [ptyIn EXCEPT ![i] = Append(@, <<"startup", stN[i] + 1>>)]
            /\ stN' = [stN EXCEPT ![i] = IF @ + 1 = WriteLen THEN 0 ELSE @ + 1]
    /\ IF fails \/ stN[i] + 1 = WriteLen
       THEN /\ lock' = [lock EXCEPT ![i] = Free]
            /\ stPc' = [stPc EXCEPT ![i] = "done"]
       ELSE UNCHANGED <<lock, stPc>>
    /\ UNCHANGED <<appVars, regVars, spawnVars, child, ptyOut, winSize, readerVars, chan,
                   emitterVars, pulses, activityVars, termEvents, callVars, removedSince>>

\* The operations of the PtyManager (impl PtyManager: spawn, write, resize,
\* kill, project_path_for_session); the commands registered for the UI call
\* the first four.
ManagerOperations == {"spawn", "write", "resize", "kill", "project_path_for_session"}

\* ------------------------------------------------------------ caller threads
\* A caller thread is idle between two operations; callOp, callSid, callH and
\* callRes keep the last operation, its id, the handle it found and its result.
\* Operations started so far by all callers.
TotalCalls == nCalls["c1"] + nCalls["c2"]

CanCall(c) == callPc[c] = "idle" /\ TotalCalls < MaxCalls

Begin(c, op, session_id) ==
    /\ callOp' = [callOp EXCEPT ![c] = op]
    /\ callSid' = [callSid EXCEPT ![c] = session_id]
    /\ nCalls' = [nCalls EXCEPT ![c] = @ + 1]

\* anyhow!("Session not found: {session_id}")
NotFound(session_id) == "Session not found: " \o session_id

\* Mutant: kill of an absent id reports the session as not found.
KillRemoveSession_NotFound(c, session_id) ==
    /\ CanCall(c)
    /\ Begin(c, "kill", session_id)
    /\ callH' = [callH EXCEPT ![c] = get_session(session_id)]
    /\ callN' = [callN EXCEPT ![c] = 0]
    /\ IF get_session(session_id) = NoInst
       THEN /\ callRes' = [callRes EXCEPT ![c] = NotFound(session_id)]
            /\ UNCHANGED <<callPc, sessions, removedSince>>
       ELSE /\ sessions' = remove_session(session_id)
            /\ removedSince' = MarkRemoved(session_id)
            /\ callRes' = [callRes EXCEPT ![c] = "none"]
            /\ callPc' = [callPc EXCEPT ![c] = "kill_remove_path"]
    /\ UNCHANGED <<appVars, session_project_paths, spawnVars, ptyVars, lock, readerVars, chan,
                   emitterVars, pulses, activityVars, stPc, stN, termEvents>>
    /\ guard' = Unlocked("sessions")

\* Mutant: the guard of the session map is bound to a local of kill and
\* lives until kill returns.
KillRemoveSession_GuardKept(c, session_id) ==
    /\ CanCall(c)
    /\ Begin(c, "kill", session_id)
    /\ callH' = [callH EXCEPT ![c] = get_session(session_id)]
    /\ callN' = [callN EXCEPT ![c] = 0]
    /\ IF get_session(session_id) = NoInst
       THEN /\ callRes' = [callRes EXCEPT ![c] = "Ok"]
            /\ UNCHANGED <<callPc, sessions, removedSince>>
       ELSE /\ sessions' = remove_session(session_id)
            /\ removedSince' = MarkRemoved(session_id)
            /\ callRes' = [callRes EXCEPT ![c] = "none"]
            /\ callPc' = [callPc EXCEPT ![c] = "kill_remove_path"]
    /\ UNCHANGED <<appVars, session_project_paths, spawnVars, ptyVars, lock, readerVars, chan,
                   emitterVars, pulses, activityVars, stPc, stN, termEvents>>
    /\ guard' = guard

\* kill, up to the removal from the session map: an absent id returns Ok(()).
KillRemoveSession(c, session_id) ==
    /\ CanCall(c)
    /\ Begin(c, "kill", session_id)
    /\ callH' = [callH EXCEPT ![c] = get_session(session_id)]
    /\ callN' = [callN EXCEPT ![c] = 0]
    /\ IF get_session(session_id) = NoInst
       THEN /\ callRes' = [callRes EXCEPT ![c] = "Ok"]
            /\ UNCHANGED <<callPc, sessions, removedSince>>
       ELSE /\ sessions' = remove_session(session_id)
            /\ removedSince' = MarkRemoved(session_id)
            /\ callRes' = [callRes EXCEPT ![c] = "none"]
            /\ callPc' = [callPc EXCEPT ![c] = "kill_remove_path"]
    /\ UNCHANGED <<appVars, session_project_paths, spawnVars, ptyVars, lock, readerVars, chan,
                   emitterVars, pulses, activityVars, stPc, stN, termEvents>>
    /\ guard' = Unlocked("sessions")

\* self.session_project_paths.lock().remove(session_id)
KillRemovePath(c) ==
    /\ callPc[c] = "kill_remove_path"
    /\ session_project_paths' = [session_project_paths EXCEPT ![callSid[c]] = NoPath]
    /\ callPc' = [callPc EXCEPT ![c] = "kill_lock"]
    /\ UNCHANGED <<appVars, sessions, spawnVars, ptyVars, lock, readerVars, chan, emitterVars,
                   pulses, activityVars, stPc, stN, termEvents, callOp, callSid, callH,
                   callRes, callN, nCalls, removedSince>>
    /\ guard' = Unlocked("session_project_paths")

\* session.lock()
KillLock(c) ==
    /\ callPc[c] = "kill_lock"
    /\ LockFree(callH[c])
    /\ lock' = [lock EXCEPT ![callH[c]] = c]
    /\ callPc' = [callPc EXCEPT ![c] = "kill_child"]
    /\ UNCHANGED <<appVars, regVars, spawnVars, ptyVars, readerVars, chan, emitterVars,
                   pulses, activityVars, stPc, stN, termEvents, callOp, callSid, callH,
                   callRes, callN, nCalls, removedSince>>

\* sess.child.kill() and sess.child.wait(): a running shell is ended by the
\* signal (a non-success status), an exited one keeps its status; callN keeps
\* the exit code.
KillChild(c) ==
    /\ callPc[c] = "kill_child"
    /\ LET h == callH[c]
           status == IF child[h] = "running" THEN "failed" ELSE child[h]
       IN  /\ child' = [child EXCEPT ![h] = status]
           /\ callN' = [callN EXCEPT ![c] = ExitCodeOf(status)]
    /\ callPc' = [callPc EXCEPT ![c] = "kill_emit"]
    /\ UNCHANGED <<appVars, regVars, spawnVars, ptyOut, ptyIn, winSize, lock, readerVars, chan,
                   emitterVars, pulses, activityVars, stPc, stN, termEvents, callOp,
                   callSid, callH, callRes, nCalls, removedSince>>

\* app_handle.emit("terminal:exit", ..) and Ok(()); the guard is dropped at
\* the end of the function.
KillEmit(c) ==
    /\ callPc[c] = "kill_emit"
    /\ termEvents' = [termEvents EXCEPT ![callH[c]] =
                         Append(@, ExitEvent(callSid[c], callN[c]))]
    /\ lock' = [lock EXCEPT ![callH[c]] = Free]
    /\ callRes' = [callRes EXCEPT ![c] = "Ok"]
    /\ callPc' = [callPc EXCEPT ![c] = "idle"]
    /\ UNCHANGED <<appVars, regVars, spawnVars, ptyVars, readerVars, chan, emitterVars,
                   pulses, activityVars, stPc, stN, callOp, callSid, callH, callN,
                   nCalls, removedSince>>

\* Mutant: write of an absent id reports success.
WriteGet_AbsentOk(c, session_id) ==
    /\ CanCall(c)
    /\ Begin(c, "write", session_id)
    /\ callH' = [callH EXCEPT ![c] = get_session(session_id)]
    /\ callN' = [callN EXCEPT ![c] = 0]
    /\ IF get_session(session_id) = NoInst
       THEN /\ callRes' = [callRes EXCEPT ![c] = "Ok"]
            /\ callPc' = callPc
       ELSE /\ callRes' = [callRes EXCEPT ![c] = "none"]
            /\ callPc' = [callPc EXCEPT ![c] = "write_lock"]
    /\ UNCHANGED <<appVars, sessions, session_project_paths, spawnVars, ptyVars, lock, readerVars, chan, emitterVars,
                   pulses, activityVars, stPc, stN, termEvents, removedSince>>
    /\ guard' = Unlocked("sessions")

\* write, the lookup: get_session(..).ok_or_else(|| anyhow!("Session not found"))?
WriteGet(c, session_id) ==
    /\ CanCall(c)
    /\ Begin(c, "write", session_id)
    /\ callH' = [callH EXCEPT ![c] = get_session(session_id)]
    /\ callN' = [callN EXCEPT ![c] = 0]
    /\ IF get_session(session_id) = NoInst
       THEN /\ callRes' = [callRes EXCEPT ![c] = NotFound(session_id)]
            /\ callPc' = callPc
       ELSE /\ callRes' = [callRes EXCEPT ![c] = "none"]
            /\ callPc' = [callPc EXCEPT ![c] = "write_lock"]
    /\ UNCHANGED <<appVars, sessions, session_project_paths, spawnVars, ptyVars, lock, readerVars, chan, emitterVars,
                   pulses, activityVars, stPc, stN, termEvents, removedSince>>
    /\ guard' = Unlocked("sessions")

\* Mutant: write goes on to write_all without waiting for the session mutex.
WriteLock_NoMutex(c) ==
    /\ callPc[c] = "write_lock"
    /\ lock' = [lock EXCEPT ![callH[c]] = c]
    /\ callPc' = [callPc EXCEPT ![c] = "write_all"]
    /\ UNCHANGED <<appVars, regVars, spawnVars, ptyVars, readerVars, chan, emitterVars,
                   pulses, activityVars, stPc, stN, termEvents, callOp, callSid, callH,
                   callRes, callN, nCalls, removedSince>>

\* session.lock()
WriteLock(c) ==
    /\ callPc[c] = "write_lock"
    /\ LockFree(callH[c])
    /\ lock' = [lock EXCEPT ![callH[c]] = c]
    /\ callPc' = [callPc EXCEPT ![c] = "write_all"]
    /\ UNCHANGED <<appVars, regVars, spawnVars, ptyVars, readerVars, chan, emitterVars,
                   pulses, activityVars, stPc, stN, termEvents, callOp, callSid, callH,
                   callRes, callN, nCalls, removedSince>>

\* sess.writer.write_all(data)?, one byte per step, then flush()? (nothing is
\* buffered) and Ok(()).  A write fails only once the shell is gone; the guard
\* is dropped on either return.
WriteAll(c, fails) ==
    /\ callPc[c] = "write_all"
    /\ fails => child[callH[c]] # "running"
    /\ IF fails
       THEN /\ ptyIn' = ptyIn
            /\ callN' = callN
            /\ callRes' = [callRes EXCEPT ![c] = "write failed"]
       ELSE /\ ptyIn' = [ptyIn EXCEPT ![callH[c]] = Append(@, <<c, callN[c] + 1>>)]
            /\ callN' = [callN EXCEPT ![c] = @ + 1]
            /\ callRes' = [callRes EXCEPT ![c] =
                              IF callN[c] + 1 = WriteLen THEN "Ok" ELSE @]
    /\ IF fails \/ callN[c] + 1 = WriteLen
       THEN /\ lock' = [lock EXCEPT ![callH[c]] = Free]
            /\ callPc' = [callPc EXCEPT ![c] = "idle"]
       ELSE UNCHANGED <<lock, callPc>>
    /\ UNCHANGED <<appVars, regVars, spawnVars, child, ptyOut, winSize, readerVars, chan,
                   emitterVars, pulses, activityVars, stPc, stN, termEvents, callOp,
                   callSid, callH, nCalls, removedSince>>

\* resize, the lookup; callN keeps the requested size.
ResizeGet(c, session_id, size) ==
    /\ CanCall(c)
    /\ Begin(c, "resize", session_id)
    /\ callH' = [callH EXCEPT ![c] = get_session(session_id)]
    /\ callN' = [callN EXCEPT ![c] = size]
    /\ IF get_session(session_id) = NoInst
       THEN /\ callRes' = [callRes EXCEPT ![c] = NotFound(session_id)]
            /\ callPc' = callPc
       ELSE /\ callRes' = [callRes EXCEPT ![c] = "none"]
            /\ callPc' = [callPc EXCEPT ![c] = "resize_lock"]
    /\ UNCHANGED <<appVars, sessions, session_project_paths, spawnVars, ptyVars, lock, readerVars, chan, emitterVars,
                   pulses, activityVars, stPc, stN, termEvents, removedSince>>
    /\ guard' = Unlocked("sessions")

\* session.lock(), sess.master.resize(..)? and Ok(()): the guard is taken,
\* the size applied (or the ioctl fails) and the guard dropped.
ResizeApply(c, fails) ==
    /\ callPc[c] = "resize_lock"
    /\ LockFree(callH[c])
    /\ IF fails
       THEN /\ winSize' = winSize
            /\ callRes' = [callRes EXCEPT ![c] = "resize failed"]
       ELSE /\ winSize' = [winSize EXCEPT ![callH[c]] = callN[c]]
            /\ callRes' = [callRes EXCEPT ![c] = "Ok"]
    /\ callPc' = [callPc EXCEPT ![c] = "idle"]
    /\ UNCHANGED <<appVars, regVars, spawnVars, child, ptyOut, ptyIn, lock, readerVars, chan,
                   emitterVars, pulses, activityVars, stPc, stN, termEvents, callOp,
                   callSid, callH, callN, nCalls, removedSince>>

\* project_path_for_session(session_id)
ProjectPathForSession(c, session_id) ==
    /\ CanCall(c)
    /\ Begin(c, "project_path_for_session", session_id)
    /\ callRes' = [callRes EXCEPT ![c] = project_path_for_session(session_id)]
    /\ UNCHANGED <<appVars, sessions, session_project_paths, spawnVars, ptyVars, lock, readerVars, chan, emitterVars,
                   pulses, activityVars, stPc, stN, termEvents, callPc, callH, callN,
                   removedSince>>
    /\ guard' = Unlocked("session_project_paths")

\* -------------------------------------------------- the registry mutexes
\* The threads that lock a registry map, as holders of its Mutex: the thread
\* that runs spawn, the emitter thread of a session, and the caller threads
\* (by their own names).
SpawnT(i) == <<"spawn1", "spawn2">>[i]
EmitterT(i) == <<"emitter1", "emitter2">>[i]

\* The only variable a lock() of a registry map changes is the guard.
LockRegistry(m, t) ==
    /\ guard[m] = Free
    /\ guard' = [guard EXCEPT ![m] = t]
    /\ UNCHANGED <<appVars, sessions, session_project_paths, spawnVars, ptyVars, lock, readerVars,
                   chan, emitterVars, pulses, activityVars, stPc, stN, termEvents, callVars,
                   removedSince>>

\* spawn: self.sessions.lock(), then self.session_project_paths.lock()
SpawnRegistryLock(i) ==
    /\ spPc[i] \in {"insert_session", "insert_path"}
    /\ LockRegistry(IF spPc[i] = "insert_session" THEN "sessions"
                    ELSE "session_project_paths", SpawnT(i))

\* emitter cleanup: sessions.lock() in remove_session, then
\* session_project_paths_for_cleanup.lock()
EmitterRegistryLock(i) ==
    /\ emPc[i] \in {"remove_session", "remove_path"}
    /\ LockRegistry(IF emPc[i] = "remove_session" THEN "sessions"
                    ELSE "session_project_paths", EmitterT(i))

\* A caller: the first statement of write and resize (get_session) and of
\* kill (remove_session) locks the session map, that of
\* project_path_for_session the path map; kill goes on to lock the path map.
CallerRegistryLock(c, m) ==
    /\ \/ CanCall(c) /\ guard["sessions"] # c /\ guard["session_project_paths"] # c
       \/ callPc[c] = "kill_remove_path" /\ m = "session_project_paths"
    /\ LockRegistry(m, c)

\* The statements that use a registry map, each run by the thread that holds
\* the map's guard.
SpawnGuarded(i) ==
    \/ SpawnRegistryLock(i)
    \/ guard["sessions"] = SpawnT(i) /\ SpawnInsertSession(i)
    \/ guard["session_project_paths"] = SpawnT(i) /\ SpawnInsertPath(i)

EmitterGuarded(i) ==
    \/ EmitterRegistryLock(i)
    \/ guard["sessions"] = EmitterT(i) /\ EmitterRemoveSession(i)
    \/ guard["session_project_paths"] = EmitterT(i) /\ EmitterRemovePath(i)

CallerGuarded(c) ==
    \/ \E m \in RegistryMaps : CallerRegistryLock(c, m)
    \/ guard["sessions"] = c /\ \E s \in Ids : WriteGet(c, s)
    \/ guard["sessions"] = c /\ \E s \in Ids : ResizeGet(c, s, 120)
    \/ guard["sessions"] = c /\ \E s \in Ids : KillRemoveSession(c, s)
    \/ guard["session_project_paths"] = c /\ KillRemovePath(c)
    \/ guard["session_project_paths"] = c /\ \E s \in Ids : ProjectPathForSession(c, s)

\* ------------------------------------------------------ the specifications
ProjectPaths == {"/w"}
GitFails == [status |-> "failed", stdout |-> <<>>]
GitRuns == {[status |-> "error", stdout |-> <<>>],
            GitFails,
            [status |-> "ok", stdout |-> <<>>],
            [status |-> "ok", stdout |-> <<"\n">>],
            [status |-> "ok", stdout |-> <<"/repo", "\n">>]}
Sizes == {80, 120}
AsciiStreams == SeqsUpTo({97}, MaxStream)
ByteStreams == SeqsUpTo(OutputBytes, MaxStream)

\* The steps of spawn after the fallible part.
SpawnSteps(i) ==
    \/ SpawnInsertSession(i)
    \/ SpawnInsertPath(i)
    \/ SpawnThreads(i)
    \/ SpawnReturn(i)

\* The steps that end a session by the natural-exit path.
ExitSteps(i) ==
    \/ \E status \in {"ok", "failed"} : ChildExit(i, status)
    \/ ReaderStop(i)
    \/ EmitterRecv(i)
    \/ EmitterFlush(i)
    \/ EmitterRemoveSession(i)
    \/ EmitterRemovePath(i)
    \/ EmitterLock(i)
    \/ EmitterWait(i)
    \/ EmitterExit(i)

\* The activity thread's steps that need no output.
QuietSteps(i) ==
    \/ ActivityTimeout(i)
    \/ ActivityDisconnected(i)

\* The reader thread's loop while the PTY has output.
ReaderSteps(i) ==
    \/ \E n \in 1..PTY_READ_BUFFER_SIZE : ReaderRead(i, n)
    \/ ReaderSend(i)
    \/ ReaderBlockedSend(i)

\* The emitter thread's loop after a chunk was received.
EmitterSteps(i) ==
    \/ \E fast \in BOOLEAN : EmitterDrain(i, fast)
    \/ EmitterCoalesce(i)
    \/ EmitterPulse(i)
    \/ EmitterEmit(i)

\* The steps that move output from the PTY to the UI.
DataSteps(i) ==
    \/ ReaderSteps(i)
    \/ EmitterSteps(i)
    \/ ActivityData(i)

StartupSteps(i) ==
    \/ StartupLock(i)
    \/ \E fails \in BOOLEAN : StartupWrite(i, fails)

KillSteps(c) ==
    \/ \E s \in Ids : KillRemoveSession(c, s)
    \/ KillRemovePath(c)
    \/ KillLock(c)
    \/ KillChild(c)
    \/ KillEmit(c)

WriteSteps(c) ==
    \/ \E s \in Ids : WriteGet(c, s)
    \/ WriteLock(c)
    \/ \E fails \in BOOLEAN : WriteAll(c, fails)

ResizeSteps(c) ==
    \/ \E s \in Ids : ResizeGet(c, s, 120)
    \/ \E fails \in BOOLEAN : ResizeApply(c, fails)

LookupSteps(c) == \E s \in Ids : ProjectPathForSession(c, s)

\* ------------------------------------------------ the refresh dispatcher
\* enqueue_request: the pending map after the call; the generation returned
\* is the one of the entry under the path in that map.
enqueue_request(project_path, source, trigger) ==
    LET entry == IF pending[project_path] = NoPending
                 THEN [generation |-> 0, source |-> source, trigger |-> trigger]
                 ELSE pending[project_path]
    IN  [pending EXCEPT ![project_path] =
            [generation |-> entry.generation + 1, source |-> source, trigger |-> trigger]]

\* take_payload_if_latest: <<the payload or NoPayload, the pending map after>>.
take_payload_if_latest(project_path, generation) ==
    IF pending[project_path] = NoPending THEN <<NoPayload, pending>>
    ELSE IF pending[project_path].generation # generation THEN <<NoPayload, pending>>
    ELSE <<ProjectRefreshRequestedEvent(project_path, pending[project_path].source,
                                        pending[project_path].trigger),
           [pending EXCEPT ![project_path] = NoPending]>>

\* A direct call of enqueue_request, as the unit tests make it.
EnqueueRequest(project_path, source, trigger) ==
    /\ Len(dispatchLog) < MaxDispatchCalls
    /\ pending' = enqueue_request(project_path, source, trigger)
    /\ dispatchLog' = Append(dispatchLog,
                             [op |-> "enqueue_request", project_path |-> project_path,
                              source |-> source, trigger |-> trigger,
                              generation |-> pending'[project_path].generation])
    /\ UNCHANGED <<ptyManagerVars, reqs, refreshEvents, pollerVars, watcherVars, hookVars>>

\* A direct call of take_payload_if_latest, as the unit tests make it.
TakePayloadIfLatest(project_path, generation) ==
    /\ Len(dispatchLog) < MaxDispatchCalls
    /\ pending' = take_payload_if_latest(project_path, generation)[2]
    /\ dispatchLog' = Append(dispatchLog,
                             [op |-> "take_payload_if_latest", project_path |-> project_path,
                              generation |-> generation,
                              payload |-> take_payload_if_latest(project_path, generation)[1]])
    /\ UNCHANGED <<ptyManagerVars, reqs, refreshEvents, pollerVars, watcherVars, hookVars>>

\* request_refresh: nothing for a blank path; otherwise the request is
\* enqueued and a timer thread is started with the generation returned.
RequestRefresh(project_path, source, trigger) ==
    /\ Len(reqs) < MaxRequests
    /\ IF IsBlank(project_path)
       THEN /\ pending' = pending
            /\ reqs' = Append(reqs, [project_path |-> project_path, source |-> source,
                                     trigger |-> trigger, generation |-> 0,
                                     timer |-> "none", payload |-> NoPayload])
       ELSE /\ pending' = enqueue_request(project_path, source, trigger)
            /\ reqs' = Append(reqs, [project_path |-> project_path, source |-> source,
                                     trigger |-> trigger,
                                     generation |-> pending'[project_path].generation,
                                     timer |-> "sleep", payload |-> NoPayload])
    /\ UNCHANGED <<ptyManagerVars, refreshEvents, dispatchLog, pollerVars, watcherVars, hookVars>>

\* The timer thread of request r after its sleep, under the lock of the
\* pending map: it returns when there is no entry under its path or the
\* entry has another generation, and otherwise builds the payload from the
\* entry and removes the entry.
TimerFire(r) ==
    /\ r \in 1..Len(reqs)
    /\ reqs[r].timer = "sleep"
    /\ LET project_path == reqs[r].project_path
           entry == pending[project_path]
       IN  IF entry = NoPending \/ entry.generation # reqs[r].generation
           THEN /\ reqs' = [reqs EXCEPT ![r].timer = "done"]
                /\ pending' = pending
           ELSE /\ reqs' = [reqs EXCEPT ![r].timer = "emit",
                                        ![r].payload = ProjectRefreshRequestedEvent(
                                            project_path, entry.source, entry.trigger)]
                /\ pending' = [pending EXCEPT ![project_path] = NoPending]
    /\ UNCHANGED <<ptyManagerVars, refreshEvents, dispatchLog, pollerVars, watcherVars, hookVars>>

\* handle.emit("project:refresh-requested", payload), its result dropped.
TimerEmit(r) ==
    /\ r \in 1..Len(reqs)
    /\ reqs[r].timer = "emit"
    /\ refreshEvents' = Append(refreshEvents, reqs[r].payload)
    /\ reqs' = [reqs EXCEPT ![r].timer = "done"]
    /\ UNCHANGED <<ptyManagerVars, pending, dispatchLog, pollerVars, watcherVars, hookVars>>

\* ----------------------------------------------------- the GitHub poller
\* The projects polled, as sequences of pieces of text, and the pull requests
\* `gh pr list` reports for them: each number at most once in a list.
PrNumbers(project_path) == IF project_path = <<"/repo">> THEN {1, 2} ELSE {1}
PrStates == {"OPEN", "CLOSED", "MERGED"}
NoState == "none"

\* GitHubPR (number, head_ref_name, state): the branch of a pull request
\* does not change.
GitHubPR(number, state) ==
    [number |-> number, head_ref_name |-> <<"feature/x", "feature/y">>[number],
     state |-> state]

PrLists(project_path) ==
    {<<>>}
    \cup {<<GitHubPR(n, st)>> : n \in PrNumbers(project_path), st \in PrStates}
    \cup {<<GitHubPR(nn[1], st1), GitHubPR(nn[2], st2)>> :
              nn \in {x \in PrNumbers(project_path) \X PrNumbers(project_path) : x[1] # x[2]},
              st1 \in PrStates, st2 \in PrStates}

\* The decimal text of a pull-request number, as format! writes it.
ToText(n) == <<"1", "2">>[n]

\* pr_key: format!("{project_path}::{pr_number}")
pr_key(project_path, pr_number) == project_path \o <<"::", ToText(pr_number)>>

\* key.starts_with(&prefix)
StartsWith(key, prefix) ==
    Len(key) >= Len(prefix) /\ SubSeq(key, 1, Len(prefix)) = prefix

\* HashMap get and insert on a map kept as a set of <<key, state>> entries.
StateOf(map, key) ==
    IF \E e \in map : e[1] = key THEN (CHOOSE e \in map : e[1] = key)[2] ELSE NoState

Inserted_pr_state(map, key, state) == {e \in map : e[1] # key} \cup {<<key, state>>}

\* Mutant: a pull request first seen as MERGED counts as a transition.
RECURSIVE MergedLoop_FirstSight(_, _, _, _)
MergedLoop_FirstSight(project_path, prs, map, merged_branches) ==
    IF prs = <<>> THEN <<map, merged_branches>>
    ELSE LET pr == Head(prs)
             key == pr_key(project_path, pr.number)
             previous == StateOf(map, key)
         IN  MergedLoop_FirstSight(project_path, Tail(prs),
                 Inserted_pr_state(map, key, pr.state),
                 IF previous # "MERGED" /\ pr.state = "MERGED"
                 THEN Append(merged_branches, pr.head_ref_name)
                 ELSE merged_branches)

\* The loop over status.prs: each state is recorded under the key of its pull
\* request, and the branch is pushed when the state recorded before exists,
\* is not MERGED, and the new state is MERGED.
RECURSIVE MergedLoop(_, _, _, _)
MergedLoop(project_path, prs, map, merged_branches) ==
    IF prs = <<>> THEN <<map, merged_branches>>
    ELSE LET pr == Head(prs)
             key == pr_key(project_path, pr.number)
             previous == StateOf(map, key)
         IN  MergedLoop(project_path, Tail(prs),
                 Inserted_pr_state(map, key, pr.state),
                 IF previous # NoState /\ previous # "MERGED" /\ pr.state = "MERGED"
                 THEN Append(merged_branches, pr.head_ref_name)
                 ELSE merged_branches)

SeenKeys(project_path, prs) == {pr_key(project_path, prs[k].number) : k \in 1..Len(prs)}

\* detect_merged_pr_transitions_and_update: <<previous_pr_states after the
\* call, merged_branches>>; the retain drops the keys of the project that this
\* poll did not see.
detect_merged_pr_transitions_and_update(project_path, prs) ==
    LET r == MergedLoop(project_path, prs, previous_pr_states, <<>>)
        prefix == project_path \o <<"::">>
    IN  <<{e \in r[1] : ~StartsWith(e[1], prefix) \/ e[1] \in SeenKeys(project_path, prs)},
          r[2]>>

\* One poll of a project by the worker: the status gh returned goes through
\* detect_merged_pr_transitions_and_update.
Poll(project_path, prs) ==
    /\ Len(pollLog) < MaxPolls
    /\ previous_pr_states' = detect_merged_pr_transitions_and_update(project_path, prs)[1]
    /\ pollLog' = Append(pollLog,
                         [project_path |-> project_path, prs |-> prs,
                          merged_branches |->
                              detect_merged_pr_transitions_and_update(project_path, prs)[2]])
    /\ UNCHANGED <<ptyManagerVars, dispatcherVars, trackVars, watcherVars, hookVars>>

\* ------------------------------------------ the GitHub poller's project map
\* p.trim()
Trim(path) == TrimEnd(TrimStart(path))

\* The paths callers pass to the poller, some with white space around them
\* and some blank.
TrackRawPaths == {<<"/repo">>, <<" ", "/repo">>, <<"/other">>, <<" ">>}
TrackLists == SeqsUpTo(TrackRawPaths, MaxTracked)

\* The worker's `now` of take_due_projects is read before the lock of the
\* state is taken.  A call that writes next_poll_at while the worker waits
\* for the lock has read its own `now` before that lock as well: either not
\* after the worker's (before: the written entries are due for the worker)
\* or after it (they are not).
WrittenWhileTaking(paths, before) ==
    IF wkPc # "take" THEN wkNow
    ELSE IF before THEN wkNow \cup paths
    ELSE wkNow \ paths

\* set_tracked_projects: persistent entries that are not tracked any more
\* are dropped, every tracked path gets a persistent entry that is due now,
\* and the recorded pull-request states of projects without an entry are
\* forgotten (as are the recorded check buckets, which are not part of the
\* state here).
SetTrackedProjects(project_paths, before) ==
    /\ ~stop
    /\ LET trackedSet == {Trim(project_paths[k]) : k \in 1..Len(project_paths)} \ {<<>>}
           retained == [p \in PollProjects |->
                           IF projects[p].present /\ projects[p].persistent
                              /\ p \notin trackedSet
                           THEN NoProject ELSE projects[p]]
           after == [p \in PollProjects |->
                        IF p \in trackedSet THEN PollProjectState(TRUE, TRUE) ELSE retained[p]]
           active_prefixes == {p \o <<"::">> : p \in {q \in PollProjects : after[q].present}}
       IN  /\ projects' = after
           /\ previous_pr_states' =
                  {e \in previous_pr_states :
                      \E prefix \in active_prefixes : StartsWith(e[1], prefix)}
           /\ wkNow' = WrittenWhileTaking(trackedSet, before)
    /\ tracked' = project_paths
    /\ UNCHANGED <<ptyManagerVars, dispatcherVars, pollLog, wkPc, wkDue, stop,
                   watcherVars, hookVars>>

\* GitHubPoller::request_refresh: nothing for a blank path; otherwise the
\* entry of the path, created as a non-persistent one if there is none, is
\* due now.
PollerRequestRefresh(project_path, before) ==
    /\ ~stop
    /\ LET path == Trim(project_path)
       IN  IF path = <<>> THEN projects' = projects /\ wkNow' = wkNow
           ELSE /\ projects' = [projects EXCEPT ![path] =
                                   PollProjectState(
                                       IF projects[path].present THEN projects[path].persistent
                                       ELSE FALSE,
                                       TRUE)]
                /\ wkNow' = WrittenWhileTaking({path}, before)
    /\ UNCHANGED <<ptyManagerVars, dispatcherVars, previous_pr_states, pollLog, tracked,
                   wkPc, wkDue, stop, watcherVars, hookVars>>

\* Time passes: the next_poll_at of an entry is reached.
PollTimeReached(path) ==
    /\ projects[path].present
    /\ ~projects[path].due
    /\ projects' = [projects EXCEPT ![path].due = TRUE]
    /\ UNCHANGED <<ptyManagerVars, dispatcherVars, previous_pr_states, pollLog, tracked,
                   wkPc, wkDue, wkNow, stop, watcherVars, hookVars>>

\* Drop for GitHubPoller
PollerDrop ==
    /\ ~stop
    /\ stop' = TRUE
    /\ UNCHANGED <<ptyManagerVars, dispatcherVars, previous_pr_states, pollLog, projects,
                   tracked, wkPc, wkDue, wkNow, watcherVars, hookVars>>

\* while !stop.load(..), reached at the start and after each sleep(WORKER_TICK)
WorkerLoop ==
    /\ wkPc = "loop"
    /\ wkPc' = IF stop THEN "stopped" ELSE "now"
    /\ UNCHANGED <<ptyManagerVars, dispatcherVars, previous_pr_states, pollLog, projects,
                   tracked, wkDue, wkNow, stop, watcherVars, hookVars>>

\* take_due_projects, `let now = Instant::now()`: the entries whose
\* next_poll_at has been reached are the ones not after `now`.
WorkerNow ==
    /\ wkPc = "now"
    /\ wkNow' = {p \in PollProjects : projects[p].present /\ projects[p].due}
    /\ wkPc' = "take"
    /\ UNCHANGED <<ptyManagerVars, dispatcherVars, previous_pr_states, pollLog, projects,
                   tracked, wkDue, stop, watcherVars, hookVars>>

\* The orders in which a HashMap may yield the paths of a set.
Orderings(S) ==
    {q \in SeqsUpTo(S, Cardinality(S)) :
        Len(q) = Cardinality(S) /\ \A j, k \in 1..Len(q) : j # k => q[j] # q[k]}

\* take_due_projects under the lock: every entry whose next_poll_at is not
\* after `now` is taken with a copy of its persistent flag and moved
\* IN_FLIGHT_BACKOFF past `now`.
WorkerTakeDue(order) ==
    /\ wkPc = "take"
    /\ order \in Orderings({p \in PollProjects : projects[p].present /\ p \in wkNow})
    /\ wkDue' = [k \in 1..Len(order) |-> <<order[k], projects[order[k]].persistent>>]
    /\ projects' = [p \in PollProjects |->
                        IF projects[p].present /\ p \in wkNow
                        THEN PollProjectState(projects[p].persistent, FALSE)
                        ELSE projects[p]]
    /\ wkNow' = {}
    /\ wkPc' = IF order = <<>> THEN "loop" ELSE "poll"
    /\ UNCHANGED <<ptyManagerVars, dispatcherVars, previous_pr_states, pollLog, tracked,
                   stop, watcherVars, hookVars>>

\* The poll of the next due project, outside the lock of the state:
\* get_project_status, the transition detection and the events.
WorkerPoll(prs) ==
    /\ wkPc = "poll"
    /\ previous_pr_states' = detect_merged_pr_transitions_and_update(wkDue[1][1], prs)[1]
    /\ wkPc' = "reschedule"
    /\ UNCHANGED <<ptyManagerVars, dispatcherVars, pollLog, projects, tracked, wkDue, wkNow,
                   stop, watcherVars, hookVars>>

\* After the poll, under the lock again: a project taken as persistent is
\* rescheduled if it still has an entry, one taken as non-persistent is
\* removed from the map.
WorkerReschedule ==
    /\ wkPc = "reschedule"
    /\ LET project_path == wkDue[1][1]
           persistent == wkDue[1][2]
       IN  projects' =
               IF persistent
               THEN IF projects[project_path].present
                    THEN [projects EXCEPT ![project_path].due = FALSE]
                    ELSE projects
               ELSE [projects EXCEPT ![project_path] = NoProject]
    /\ wkDue' = Tail(wkDue)
    /\ wkPc' = IF Tail(wkDue) = <<>> THEN "loop" ELSE "poll"
    /\ UNCHANGED <<ptyManagerVars, dispatcherVars, previous_pr_states, pollLog, tracked,
                   wkNow, stop, watcherVars, hookVars>>

\* ---------------------------------------------------------- the GitWatcher
\* The paths callers pass to sync_projects, some with white space around
\* them and some blank.
WatchRawPaths == {<<"/repo/a">>, <<" ", "/repo/a", " ">>, <<"/repo/b">>, <<" ">>, <<>>}
WatchLists == SeqsUpTo(WatchRawPaths, MaxSynced)

\* What the file watcher watches in a git directory: HEAD and refs.
WatchedFiles == {"HEAD", "refs"}

\* The ways a watch_project call can go wrong once the git directory was
\* found: there is no file watcher ("watcher"), the watch of HEAD fails
\* ("HEAD"), or the watch of refs fails ("refs").
WatchFailures == {"none", "watcher", "HEAD", "refs"}

\* The file system, git_dirs, holds <<p, ".git">> when p/.git is a directory,
\* <<p, "gitdir">> when p/.git is a file that points into the .git/worktrees
\* of the other project, and <<p, f>> when p/.git/f exists.  A git directory
\* is named by the project it lies in.
NoGitDir == <<>>
MainRepository(path) == CHOOSE q \in WatchPaths : q # path

\* resolve_git_dir: the project's own .git directory, for a worktree the
\* .git of its main repository (whether or not that exists), or none.
resolve_git_dir(path) ==
    IF <<path, ".git">> \in git_dirs THEN path
    ELSE IF <<path, "gitdir">> \in git_dirs THEN MainRepository(path)
    ELSE NoGitDir

\* git_dir.join(file).exists()
GitFileExists(git_dir, file) == <<git_dir, file>> \in git_dirs

\* normalize_project_paths
normalize_project_paths(project_paths) ==
    {Trim(project_paths[k]) : k \in 1..Len(project_paths)} \ {<<>>}

\* watch_diff: <<to_watch, to_unwatch>>
watch_diff(current, desired) == <<desired \ current, current \ desired>>

\* A call of watch_project or unwatch_project in progress: its path, the git
\* directory it resolved, and where it stands: "lock" when it has resolved
\* the git directory and waits for watched_paths, "refs" when it holds
\* watched_paths and the file watcher and is done with HEAD.
WatcherCall(op, path, git_dir, pc) ==
    [op |-> op, project_path |-> path, git_dir |-> git_dir, pc |-> pc]

\* watch_project up to the lock: resolve the git directory; with none the call
\* returns an error and nothing is in progress.
watch_project(path) ==
    IF resolve_git_dir(path) = NoGitDir THEN NoCall
    ELSE WatcherCall("watch_project", path, resolve_git_dir(path), "lock")

\* watch_project from the lock to the watch of HEAD: <<watched_paths, watches,
\* call>> after it; registered is the set of <<git directory, file>> the file
\* watcher watches.  The call returns here when the path is watched already,
\* when there is no file watcher and when the watch of HEAD fails.
watch_project_head(watched, registered, call, failure) ==
    LET head == GitFileExists(call.git_dir, "HEAD")
    IN  IF call.project_path \in watched THEN <<watched, registered, NoCall>>
        ELSE IF failure = "watcher" THEN <<watched, registered, NoCall>>
        ELSE IF head /\ failure = "HEAD" THEN <<watched, registered, NoCall>>
        ELSE <<watched,
               registered \cup (IF head THEN {<<call.git_dir, "HEAD">>} ELSE {}),
               [call EXCEPT !.pc = "refs"]>>

\* watch_project from refs.exists() to its return: <<watched_paths, watches>>
\* after it.
watch_project_refs(watched, registered, call, failure) ==
    LET refs == GitFileExists(call.git_dir, "refs")
    IN  IF refs /\ failure = "refs" THEN <<watched, registered>>
        ELSE <<watched \cup {call.project_path},
               registered \cup (IF refs THEN {<<call.git_dir, "refs">>} ELSE {})>>

\* unwatch_project up to the lock: with no git directory it returns at once.
unwatch_project(path) ==
    IF resolve_git_dir(path) = NoGitDir THEN NoCall
    ELSE WatcherCall("unwatch_project", path, resolve_git_dir(path), "lock")

\* unwatch_project from the lock to the unwatch of HEAD; it returns here when
\* the path was not watched.
unwatch_project_head(watched, registered, call) ==
    IF call.project_path \notin watched THEN <<watched, registered, NoCall>>
    ELSE <<watched \ {call.project_path},
           registered \ (IF GitFileExists(call.git_dir, "HEAD")
                         THEN {<<call.git_dir, "HEAD">>} ELSE {}),
           [call EXCEPT !.pc = "refs"]>>

\* unwatch_project from refs.exists() to its return.
unwatch_project_refs(watched, registered, call) ==
    <<watched,
      registered \ (IF GitFileExists(call.git_dir, "refs")
                    THEN {<<call.git_dir, "refs">>} ELSE {})>>

\* The step of a call that takes the locks, and its last step, for either
\* operation; an unwatch has no failures.
WatcherCallHead(watched, registered, call, failure) ==
    IF call.op = "watch_project"
    THEN watch_project_head(watched, registered, call, failure)
    ELSE unwatch_project_head(watched, registered, call)

WatcherCallRefs(watched, registered, call, failure) ==
    IF call.op = "watch_project"
    THEN watch_project_refs(watched, registered, call, failure)
    ELSE unwatch_project_refs(watched, registered, call)

\* The failures a step of a call can meet.
HeadFailures(call) == IF call.op = "watch_project" THEN {"none", "watcher", "HEAD"} ELSE {"none"}
RefsFailures(call) == IF call.op = "watch_project" THEN {"none", "refs"} ELSE {"none"}

\* The watch_project or unwatch_project call a sync_projects round is in.
SyncRound == IF syncCall = NoCall THEN NoCall ELSE syncCall.round

\* Whether a call holds watched_paths and the file watcher.
HoldsLocks(call) == call # NoCall /\ call.pc = "refs"

\* A sync_projects call in progress is no longer alone once another call of
\* the GitWatcher has run since it read watched_paths.
Interrupted(call) == IF call = NoCall THEN call ELSE [call EXCEPT !.alone = FALSE]

\* The watch_project command begins; one command is in progress at a time.
WatchProject(path) ==
    /\ cmdCall = NoCall
    /\ cmdCall' = watch_project(path)
    /\ lastWatcherCall' = [op |-> "watch_project", project_path |-> path]
    /\ syncCall' = Interrupted(syncCall)
    /\ UNCHANGED <<ptyManagerVars, dispatcherVars, pollerVars, watched_paths, watches,
                   git_dirs, hookVars>>

\* The unwatch_project command begins.
UnwatchProject(path) ==
    /\ cmdCall = NoCall
    /\ cmdCall' = unwatch_project(path)
    /\ lastWatcherCall' = [op |-> "unwatch_project", project_path |-> path]
    /\ syncCall' = Interrupted(syncCall)
    /\ UNCHANGED <<ptyManagerVars, dispatcherVars, pollerVars, watched_paths, watches,
                   git_dirs, hookVars>>

\* The command takes the locks, once no other call holds them, and goes on
\* to HEAD.
CommandHead(failure) ==
    /\ cmdCall # NoCall
    /\ cmdCall.pc = "lock"
    /\ ~HoldsLocks(SyncRound)
    /\ failure \in HeadFailures(cmdCall)
    /\ watched_paths' = WatcherCallHead(watched_paths, watches, cmdCall, failure)[1]
    /\ watches' = WatcherCallHead(watched_paths, watches, cmdCall, failure)[2]
    /\ cmdCall' = WatcherCallHead(watched_paths, watches, cmdCall, failure)[3]
    /\ UNCHANGED <<ptyManagerVars, dispatcherVars, pollerVars, git_dirs, lastWatcherCall,
                   syncCall, hookVars>>

\* The command goes on to refs and returns.
CommandRefs(failure) ==
    /\ HoldsLocks(cmdCall)
    /\ failure \in RefsFailures(cmdCall)
    /\ watched_paths' = WatcherCallRefs(watched_paths, watches, cmdCall, failure)[1]
    /\ watches' = WatcherCallRefs(watched_paths, watches, cmdCall, failure)[2]
    /\ cmdCall' = NoCall
    /\ UNCHANGED <<ptyManagerVars, dispatcherVars, pollerVars, git_dirs, lastWatcherCall,
                   syncCall, hookVars>>

\* sync_projects, up to the loops: normalize the paths, copy watched_paths
\* under its lock and compute what to watch and what to unwatch.  Its callers
\* load_workspaces and save_workspaces run one after the other, so one call
\* is in progress at a time.
SyncProjects(project_paths) ==
    /\ syncCall = NoCall
    /\ ~HoldsLocks(cmdCall)
    /\ syncCall' =
           LET desired == normalize_project_paths(project_paths)
               current == watched_paths
           IN  [op |-> "sync_projects", desired |-> desired, current |-> current,
                to_watch |-> watch_diff(current, desired)[1],
                to_unwatch |-> watch_diff(current, desired)[2],
                round |-> NoCall,
                alone |-> TRUE]
    /\ lastWatcherCall' = NoCall
    /\ UNCHANGED <<ptyManagerVars, dispatcherVars, pollerVars, watched_paths, watches,
                   git_dirs, cmdCall, hookVars>>

\* sync_projects, a round of its first loop begins: watch_project for a path
\* of to_watch, in the order the hash set gives; an error is only logged.
SyncWatch(path) ==
    /\ syncCall # NoCall
    /\ syncCall.round = NoCall
    /\ path \in syncCall.to_watch
    /\ syncCall' = [syncCall EXCEPT !.to_watch = @ \ {path}, !.round = watch_project(path)]
    /\ UNCHANGED <<ptyManagerVars, dispatcherVars, pollerVars, watched_paths, watches,
                   git_dirs, lastWatcherCall, cmdCall, hookVars>>

\* sync_projects, a round of its second loop begins: unwatch_project for a
\* path of to_unwatch; an error is only logged.
SyncUnwatch(path) ==
    /\ syncCall # NoCall
    /\ syncCall.round = NoCall
    /\ syncCall.to_watch = {}
    /\ path \in syncCall.to_unwatch
    /\ syncCall' = [syncCall EXCEPT !.to_unwatch = @ \ {path}, !.round = unwatch_project(path)]
    /\ UNCHANGED <<ptyManagerVars, dispatcherVars, pollerVars, watched_paths, watches,
                   git_dirs, lastWatcherCall, cmdCall, hookVars>>

\* The call of the round takes the locks, once no other call holds them, and
\* goes on to HEAD.
SyncRoundHead(failure) ==
    /\ SyncRound # NoCall
    /\ SyncRound.pc = "lock"
    /\ ~HoldsLocks(cmdCall)
    /\ failure \in HeadFailures(SyncRound)
    /\ watched_paths' = WatcherCallHead(watched_paths, watches, SyncRound, failure)[1]
    /\ watches' = WatcherCallHead(watched_paths, watches, SyncRound, failure)[2]
    /\ syncCall' = [syncCall EXCEPT
                       !.round = WatcherCallHead(watched_paths, watches, SyncRound, failure)[3]]
    /\ UNCHANGED <<ptyManagerVars, dispatcherVars, pollerVars, git_dirs, lastWatcherCall,
                   cmdCall, hookVars>>

\* The call of the round goes on to refs and returns.
SyncRoundRefs(failure) ==
    /\ HoldsLocks(SyncRound)
    /\ failure \in RefsFailures(SyncRound)
    /\ watched_paths' = WatcherCallRefs(watched_paths, watches, SyncRound, failure)[1]
    /\ watches' = WatcherCallRefs(watched_paths, watches, SyncRound, failure)[2]
    /\ syncCall' = [syncCall EXCEPT !.round = NoCall]
    /\ UNCHANGED <<ptyManagerVars, dispatcherVars, pollerVars, git_dirs, lastWatcherCall,
                   cmdCall, hookVars>>

\* sync_projects returns.
SyncReturn ==
    /\ syncCall # NoCall
    /\ syncCall.round = NoCall
    /\ syncCall.to_watch = {}
    /\ syncCall.to_unwatch = {}
    /\ lastWatcherCall' = syncCall
    /\ syncCall' = NoCall
    /\ UNCHANGED <<ptyManagerVars, dispatcherVars, pollerVars, watched_paths, watches,
                   git_dirs, cmdCall, hookVars>>

\* The file system: a project gets a .git directory, or a .git file that
\* makes it a worktree of the other project; HEAD and refs appear in a .git
\* directory and disappear; a project loses its .git with all that is in it
\* (the project was deleted or moved).
GitDirCreated(path) ==
    /\ resolve_git_dir(path) = NoGitDir
    /\ git_dirs' = git_dirs \cup {<<path, ".git">>}
    /\ UNCHANGED <<ptyManagerVars, dispatcherVars, pollerVars, watched_paths, watches,
                   lastWatcherCall, syncCall, cmdCall, hookVars>>

GitWorktreeCreated(path) ==
    /\ resolve_git_dir(path) = NoGitDir
    /\ git_dirs' = git_dirs \cup {<<path, "gitdir">>}
    /\ UNCHANGED <<ptyManagerVars, dispatcherVars, pollerVars, watched_paths, watches,
                   lastWatcherCall, syncCall, cmdCall, hookVars>>

GitFileCreated(path, file) ==
    /\ <<path, ".git">> \in git_dirs
    /\ ~GitFileExists(path, file)
    /\ git_dirs' = git_dirs \cup {<<path, file>>}
    /\ UNCHANGED <<ptyManagerVars, dispatcherVars, pollerVars, watched_paths, watches,
                   lastWatcherCall, syncCall, cmdCall, hookVars>>

GitFileRemoved(path, file) ==
    /\ GitFileExists(path, file)
    /\ git_dirs' = git_dirs \ {<<path, file>>}
    /\ UNCHANGED <<ptyManagerVars, dispatcherVars, pollerVars, watched_paths, watches,
                   lastWatcherCall, syncCall, cmdCall, hookVars>>

GitDirRemoved(path) ==
    /\ resolve_git_dir(path) # NoGitDir
    /\ git_dirs' = {e \in git_dirs : e[1] # path}
    /\ UNCHANGED <<ptyManagerVars, dispatcherVars, pollerVars, watched_paths, watches,
                   lastWatcherCall, syncCall, cmdCall, hookVars>>

\* ------------------------------------------------------------ the hook bridge
\* A hook is looked at through three accessors: hook_event_name, tool_name
\* and tool_input.command, each a string or nothing (the key is missing or
\* its value is not a string).  A command is a sequence of characters.
NoValue == "none"
NoCommand == <<"none">>
HookEventNames == {"PostToolUse", "Notification"}
ToolNames == {"Write", "Edit", "NotebookEdit", "Bash", "Read"}
CommandChars == {"g", "i", "t", "h", "G", "2", "_", " ", "-"}
Commands == SeqsUpTo(CommandChars, MaxCommandLen)
Hooks ==
    [hook_event_name : HookEventNames \cup {NoValue},
     tool_name : ToolNames \cup {NoValue},
     command : Commands \cup {NoCommand}]

\* c.is_ascii_alphanumeric() || c == '_'
IsTokenChar(c) == c \in {"g", "i", "t", "h", "G", "2", "_"}

\* command.split(|c| !c.is_ascii_alphanumeric() && c != '_'): the tokens
\* between the other characters, the empty ones included; `token` is the
\* token begun so far.
RECURSIVE SplitTokens(_, _)
SplitTokens(command, token) ==
    IF command = <<>> THEN <<token>>
    ELSE IF IsTokenChar(Head(command))
    THEN SplitTokens(Tail(command), Append(token, Head(command)))
    ELSE <<token>> \o SplitTokens(Tail(command), <<>>)

\* Mutant: git or gh anywhere in the command, inside longer words too.
command_mentions_git_or_gh_Anywhere(command) ==
    \E a \in 1..Len(command) : \E b \in a..Len(command) :
        SubSeq(command, a, b) \in {<<"g", "i", "t">>, <<"g", "h">>}

\* command_mentions_git_or_gh
command_mentions_git_or_gh(command) ==
    \E k \in 1..Len(SplitTokens(command, <<>>)) :
        SplitTokens(command, <<>>)[k] \in {<<"g", "i", "t">>, <<"g", "h">>}

\* should_emit_project_refresh_for_hook
should_emit_project_refresh_for_hook(hook) ==
    IF hook.hook_event_name # "PostToolUse" THEN FALSE
    ELSE IF hook.tool_name \in {"Write", "Edit", "NotebookEdit"} THEN TRUE
    ELSE IF hook.tool_name = "Bash"
    THEN IF hook.command = NoCommand THEN FALSE
         ELSE command_mentions_git_or_gh(hook.command)
    ELSE FALSE

\* One call of should_emit_project_refresh_for_hook on any hook; the function
\* keeps no state, so one call per behaviour shows all it does.
ShouldEmitProjectRefreshForHook ==
    /\ hookCall = NoCall
    /\ \E hook \in Hooks :
           hookCall' = [op |-> "should_emit_project_refresh_for_hook",
                        hook |-> hook,
                        result |-> should_emit_project_refresh_for_hook(hook)]
    /\ UNCHANGED <<ptyManagerVars, dispatcherVars, pollerVars, watcherVars>>

\* Spec: the registry and the session life cycle.  Any id may be spawned,
\* also one that is registered or was registered before; the shells print
\* nothing (the activity threads, which touch nothing but their own state, are
\* left out); one caller thread issues kill with any id.
Next ==
    \/ \E s \in Ids : SpawnCall(s, "/w", GitFails, 80, <<>>, FALSE, "ok")
    \/ \E i \in Inst : SpawnSteps(i)
    \/ \E i \in Inst : ExitSteps(i)
    \/ KillSteps("c1")

Spec == Init /\ [][Next]_vars

\* SpecCalls: one session, with or without a startup command, and two caller
\* threads that issue write, resize, kill and project_path_for_session with
\* any id, registered or not.
NextCalls ==
    \/ /\ nSpawn = 0
       /\ \E s \in Ids, st \in BOOLEAN : SpawnCall(s, "/w", GitFails, 80, <<>>, st, "ok")
    \/ SpawnSteps(1)
    \/ ExitSteps(1)
    \/ StartupSteps(1)
    \/ \E c \in Callers : KillSteps(c)
    \/ \E c \in Callers : WriteSteps(c)
    \/ \E c \in Callers : ResizeSteps(c)
    \/ \E c \in Callers : LookupSteps(c)

SpecCalls == Init /\ [][NextCalls]_vars

\* SpecPipe: the output pipeline of one session with any id, for every byte
\* stream of up to MaxStream bytes and every way of cutting it into reads.
NextPipe ==
    \/ /\ nSpawn = 0
       /\ \E s \in Ids, stream \in ByteStreams :
              SpawnCall(s, "/w", GitFails, 80, stream, FALSE, "ok")
    \/ SpawnSteps(1)
    \/ ExitSteps(1)
    \/ QuietSteps(1)
    \/ DataSteps(1)

SpecPipe == Init /\ [][NextPipe]_vars

\* SpecIso: two sessions side by side.  Session "s1" (instance 1) prints one
\* byte more than its channel holds chunks while its emitter thread is not scheduled, so its channel fills and
\* its reader ends up blocked in send; its shell keeps running and caller c1
\* writes to it.  Session "s2" (instance 2), spawned once the first spawn has
\* returned and the first reader is blocked, runs its whole pipeline to the natural exit or to a kill while
\* caller c2 writes to it, resizes it or kills it.
NextIso ==
    \/ /\ nSpawn = 0
       /\ SpawnCall("s1", "/w", GitFails, 80,
                    [k \in 1..(PTY_DATA_CHANNEL_CAPACITY + 1) |-> 97], FALSE, "ok")
    \/ /\ nSpawn = 1
       /\ spPc[1] = "done"
       /\ rdPc[1] = "blocked"
       /\ SpawnCall("s2", "/w", GitFails, 80, <<97, 97>>, FALSE, "ok")
    \/ \E i \in Inst : SpawnSteps(i)
    \/ \E i \in Inst, n \in 1..PTY_READ_BUFFER_SIZE : ReaderRead(i, n)
    \/ \E i \in Inst : ReaderSend(i)
    \/ EmitterSteps(2)
    \/ ActivityData(2)
    \/ QuietSteps(2)
    \/ ExitSteps(2)
    \/ WriteGet("c1", "s1")
    \/ WriteGet("c2", "s2")
    \/ \E c \in Callers : WriteLock(c)
    \/ \E c \in Callers, fails \in BOOLEAN : WriteAll(c, fails)
    \/ ResizeGet("c2", "s2", 120)
    \/ \E fails \in BOOLEAN : ResizeApply("c2", fails)
    \/ KillRemoveSession("c2", "s2")
    \/ KillRemovePath("c2")
    \/ KillLock("c2")
    \/ KillChild("c2")
    \/ KillEmit("c2")

SpecIso == Init /\ [][NextIso]_vars

\* SpecLive: one session that nobody kills, under fair scheduling.  Every
\* thread of the program that can take a step eventually takes one (weak
\* fairness per thread: a thread blocked in recv, send, lock or wait is not
\* enabled).  The shell and the PTY are the environment: when the shell exits
\* and whether a read ends the stream early is up to them, so ChildExit and
\* ReaderBreak carry no fairness.
SpawnThread(i) == SpawnSteps(i)

ReaderThread(i) == ReaderSteps(i) \/ ReaderStop(i)

EmitterThread(i) ==
    \/ EmitterRecv(i)
    \/ EmitterSteps(i)
    \/ EmitterFlush(i)
    \/ EmitterRemoveSession(i)
    \/ EmitterRemovePath(i)
    \/ EmitterLock(i)
    \/ EmitterWait(i)
    \/ EmitterExit(i)

ActivityThread(i) == ActivityData(i) \/ QuietSteps(i)

NextLive ==
    \/ /\ nSpawn = 0
       /\ \E s \in Ids, stream \in AsciiStreams :
              SpawnCall(s, "/w", GitFails, 80, stream, FALSE, "ok")
    \/ SpawnSteps(1)
    \/ ExitSteps(1)
    \/ ReaderBreak(1)
    \/ QuietSteps(1)
    \/ DataSteps(1)

SpecLive ==
    /\ Init
    /\ [][NextLive]_vars
    /\ WF_vars(SpawnThread(1))
    /\ WF_vars(ReaderThread(1))
    /\ WF_vars(EmitterThread(1))
    /\ WF_vars(ActivityThread(1))

\* SpecFail: spawn calls that succeed or fail at any of the four fallible
\* steps, each with a startup command; the sessions that were spawned run to
\* their natural exit.
SpawnOutcomes == SpawnErrors \cup {"ok"}

NextFail ==
    \/ \E s \in Ids, outcome \in SpawnOutcomes :
           SpawnCall(s, "/w", GitFails, 80, <<>>, TRUE, outcome)
    \/ \E i \in Inst : SpawnSteps(i)
    \/ \E i \in Inst : ExitSteps(i)
    \/ \E i \in Inst : StartupSteps(i)

SpecFail == Init /\ [][NextFail]_vars

\* SpecGuard: the registry mutexes step by step.  One session runs from spawn
\* to its natural exit while two caller threads issue write, resize, kill and
\* project_path_for_session; every use of a registry map is a lock() step
\* followed by the statement that uses the map and drops the guard.
NextGuard ==
    \/ /\ nSpawn = 0
       /\ \E s \in Ids : SpawnCall(s, "/w", GitFails, 80, <<>>, FALSE, "ok")
    \/ SpawnGuarded(1)
    \/ SpawnThreads(1)
    \/ SpawnReturn(1)
    \/ \E status \in {"ok", "failed"} : ChildExit(1, status)
    \/ ReaderStop(1)
    \/ EmitterRecv(1)
    \/ EmitterFlush(1)
    \/ EmitterGuarded(1)
    \/ EmitterLock(1)
    \/ EmitterWait(1)
    \/ EmitterExit(1)
    \/ \E c \in Callers : CallerGuarded(c)
    \/ \E c \in Callers : KillLock(c) \/ KillChild(c) \/ KillEmit(c)
    \/ \E c \in Callers : WriteLock(c)
    \/ \E c \in Callers, fails \in BOOLEAN : WriteAll(c, fails)
    \/ \E c \in Callers, fails \in BOOLEAN : ResizeApply(c, fails)

SpecGuard == Init /\ [][NextGuard]_vars

\* SpecSend: send_output_chunk against every state of its channel.  The
\* reader of one session sends the chunks of a stream of up to MaxStream
\* bytes while the receiving end is read, left alone (the channel fills) or
\* dropped at any moment.
NextSend ==
    \/ /\ nSpawn = 0
       /\ \E stream \in AsciiStreams : SpawnCall("s1", "/w", GitFails, 80, stream, FALSE, "ok")
    \/ SpawnSteps(1)
    \/ ReaderSteps(1)
    \/ EmitterRecv(1)
    \/ EmitterSteps(1)
    \/ DropReceiver(1)

SpecSend == Init /\ [][NextSend]_vars

\* SpecPath: one session whose working directory is "/w/sub".  Session "s1"
\* is spawned where git prints the root "/repo", session "s2" where git
\* cannot be run, fails or prints nothing but white space; caller c1 kills and
\* caller c2 looks the project path up, with any id, at any moment.
GitResolves == {[status |-> "ok", stdout |-> <<"/repo", "\n">>]}
GitUnresolved == GitRuns \ GitResolves

NextPath ==
    \/ /\ nSpawn = 0
       /\ \/ \E git \in GitResolves : SpawnCall("s1", "/w/sub", git, 80, <<>>, FALSE, "ok")
          \/ \E git \in GitUnresolved : SpawnCall("s2", "/w/sub", git, 80, <<>>, FALSE, "ok")
    \/ SpawnSteps(1)
    \/ ExitSteps(1)
    \/ KillSteps("c1")
    \/ LookupSteps("c2")

SpecPath == Init /\ [][NextPath]_vars

\* SpecTake: enqueue_request and take_payload_if_latest called directly, in
\* any order, with any arguments, up to MaxDispatchCalls calls.
TakePaths == {<<"/repo">>, <<" ", "/repo">>}

NextTake ==
    \/ \E p \in TakePaths, source \in Sources, trigger \in Triggers :
           EnqueueRequest(p, source, trigger)
    \/ \E p \in TakePaths, g \in 0..MaxDispatchCalls : TakePayloadIfLatest(p, g)

SpecTake == Init /\ [][NextTake]_vars

\* SpecRefresh: up to MaxRequests request_refresh calls with any path, source
\* and trigger, and their timer threads, which wake up in any order (a sleep
\* lasts at least the debounce window, and as much longer as the scheduler
\* makes it).
NextRefresh ==
    \/ \E p \in RefreshPaths, source \in Sources, trigger \in Triggers :
           RequestRefresh(p, source, trigger)
    \/ \E r \in 1..MaxRequests : TimerFire(r)
    \/ \E r \in 1..MaxRequests : TimerEmit(r)

SpecRefresh == Init /\ [][NextRefresh]_vars

\* SpecPoll: up to MaxPolls polls of two projects in any order, each with any
\* list of pull requests in any states.
NextPoll == \E p \in PollProjects : \E prs \in PrLists(p) : Poll(p, prs)

SpecPoll == Init /\ [][NextPoll]_vars

\* SpecTrack: the project map of the GitHub poller under set_tracked_projects
\* and request_refresh calls with any paths, the worker thread and the
\* passing of time.
NextTrack ==
    \/ \E project_paths \in TrackLists, before \in BOOLEAN :
           SetTrackedProjects(project_paths, before)
    \/ \E project_path \in TrackRawPaths, before \in BOOLEAN :
           PollerRequestRefresh(project_path, before)
    \/ \E path \in PollProjects : PollTimeReached(path)
    \/ PollerDrop
    \/ WorkerLoop
    \/ WorkerNow
    \/ \E order \in SeqsUpTo(PollProjects, Cardinality(PollProjects)) : WorkerTakeDue(order)
    \/ \E prs \in {<<>>, <<GitHubPR(1, "OPEN")>>} : WorkerPoll(prs)
    \/ WorkerReschedule

SpecTrack == Init /\ [][NextTrack]_vars

\* The file system as the GitWatcher sees it: git directories, worktrees,
\* HEAD and refs come and go.
FileSystemSteps ==
    \/ \E path \in WatchPaths : GitDirCreated(path)
    \/ \E path \in WatchPaths : GitWorktreeCreated(path)
    \/ \E path \in WatchPaths, file \in WatchedFiles : GitFileCreated(path, file)
    \/ \E path \in WatchPaths, file \in WatchedFiles : GitFileRemoved(path, file)
    \/ \E path \in WatchPaths : GitDirRemoved(path)

\* SpecWatch: the GitWatcher under sync_projects calls with any list of
\* paths, each running step by step, while the file system changes between
\* any two steps.
NextWatch ==
    \/ \E project_paths \in WatchLists : SyncProjects(project_paths)
    \/ \E path \in WatchPaths : SyncWatch(path)
    \/ \E path \in WatchPaths : SyncUnwatch(path)
    \/ \E failure \in WatchFailures : SyncRoundHead(failure)
    \/ \E failure \in WatchFailures : SyncRoundRefs(failure)
    \/ SyncReturn
    \/ FileSystemSteps

SpecWatch == Init /\ [][NextWatch]_vars

\* SpecWatchCommands: the watch_project and unwatch_project commands, one at
\* a time and step by step, while the file system changes.
NextWatchCommands ==
    \/ \E path \in WatchPaths : WatchProject(path)
    \/ \E path \in WatchPaths : UnwatchProject(path)
    \/ \E failure \in WatchFailures : CommandHead(failure)
    \/ \E failure \in WatchFailures : CommandRefs(failure)
    \/ FileSystemSteps

SpecWatchCommands == Init /\ [][NextWatchCommands]_vars


\* SpecExit: one session that ends by itself, with any outcome of wait, or by
\* a kill, or both.
NextExit ==
    \/ /\ nSpawn = 0
       /\ SpawnCall("s1", "/w", GitFails, 80, <<>>, FALSE, "ok")
    \/ SpawnSteps(1)
    \/ ChildExit(1, "error")
    \/ ExitSteps(1)
    \/ KillSteps("c1")

SpecExit == Init /\ [][NextExit]_vars

\* SpecHook: should_emit_project_refresh_for_hook on every hook with any event
\* name, any tool name and any command of up to MaxCommandLen characters, or
\* with any of them missing.
NextHook == ShouldEmitProjectRefreshForHook

SpecHook == Init /\ [][NextHook]_vars

\* ------------------------------------------------------------------ claims
IsExit(e) == e.name = "terminal:exit"
IsData(e) == e.name = "terminal:data"

\* Number of terminal:exit events emitted for the session of instance i.
ExitCount(i) == Cardinality({k \in 1..Len(termEvents[i]) : IsExit(termEvents[i][k])})

Inserted(i) == spPc[i] \in {"insert_path", "threads", "return", "done"}
                  /\ spRes[i] \notin SpawnErrors

\* C1: for every session, whichever of the natural-exit cleanup and a kill
\* ends it, the number of terminal:exit events emitted for it is never two or
\* more, and it is exactly one once its emitter thread has ended.
C1_ExactlyOneExit ==
    \A i \in Inst :
        /\ ExitCount(i) <= 1
        /\ emPc[i] = "done" => ExitCount(i) = 1

\* The data payloads of the terminal:data events of a log, concatenated in
\* emission order.
RECURSIVE Delivered(_)
Delivered(events) ==
    IF events = <<>> THEN <<>>
    ELSE IF IsData(Head(events)) THEN Head(events).data \o Delivered(Tail(events))
    ELSE Delivered(Tail(events))

\* The valid UTF-8 content of a byte sequence: its whole valid characters in
\* order, without the bytes that belong to none.
RECURSIVE ValidContentFrom(_, _)
ValidContentFrom(bytes, k) ==
    IF k > Len(bytes) THEN <<>>
    ELSE IF CharAt(bytes, k)
    THEN SubSeq(bytes, k, k + Utf8CharWidth(bytes[k]) - 1)
             \o ValidContentFrom(bytes, k + Utf8CharWidth(bytes[k]))
    ELSE ValidContentFrom(bytes, k + 1)

ValidContent(bytes) == ValidContentFrom(bytes, 1)

\* The emitter of instance i is past its final flush.
Flushed(i) == emPc[i] \in {"remove_session", "remove_path", "lock", "wait", "exit", "done"}

\* C2: for every byte stream and every way of cutting it into reads, once the
\* emitter has flushed, the data payloads emitted for the session, concatenated
\* in emission order, equal the valid UTF-8 content of the bytes read, in read
\* order.
C2_DeliveredEqualsValidRead ==
    \A i \in Inst : Flushed(i) => Delivered(termEvents[i]) = ValidContent(bytesRead[i])

\* C3 as stated: once spawn has returned Ok, the first write, resize or kill
\* issued for the id finds it registered, whatever the worker threads did.
C3_AlwaysRegisteredAfterSpawn ==
    \A i \in Inst :
        (spRes[i] = "Ok" /\ TotalCalls = 0) => get_session(sid[i]) # NoInst

\* C3 as amended: when spawn is past its insertion (so also when it has
\* returned Ok, and whenever one of its worker threads runs), the id is
\* registered unless a kill or a natural-exit cleanup of that id has removed
\* it since the insertion.
C3_RegisteredUntilRemoved ==
    \A i \in Inst :
        /\ (Inserted(i) /\ ~removedSince[i]) => get_session(sid[i]) # NoInst
        /\ (rdPc[i] # "off" \/ emPc[i] # "off" \/ acPc[i] # "off") => Inserted(i)

\* A spawn has returned Ok, its reader has seen the shell exit and its emitter
\* is running, and the session is still registered.
C3_Witness ==
    \E i \in Inst :
        /\ spRes[i] = "Ok"
        /\ rdPc[i] = "done"
        /\ emPc[i] = "flush"
        /\ ~removedSince[i]
        /\ get_session(sid[i]) = i

\* A caller starts operation op on id s in this step.
Starts(c, op, s) ==
    /\ callPc[c] = "idle"
    /\ nCalls'[c] = nCalls[c] + 1
    /\ callOp'[c] = op
    /\ callSid'[c] = s

\* C4: kill of an id that is not in the session map returns Ok at once, emits
\* no event and leaves both registry maps (and every session) as they are.
C4_KillAbsentIsNoop ==
    [][\A c \in Callers, s \in Ids :
          (Starts(c, "kill", s) /\ get_session(s) = NoInst) =>
              /\ callRes'[c] = "Ok"
              /\ callPc'[c] = "idle"
              /\ UNCHANGED <<sessions, session_project_paths, termEvents, actEvents,
                             child, lock, ptyIn, winSize>>]_vars

\* A second kill of an id found nothing, after a first one removed the session.
C4_Witness ==
    \E i \in Inst :
        /\ nCalls["c1"] = 2
        /\ callPc["c1"] = "idle"
        /\ callOp["c1"] = "kill"
        /\ callSid["c1"] = sid[i]
        /\ callH["c1"] = NoInst
        /\ callRes["c1"] = "Ok"
        /\ removedSince[i]
        /\ ExitCount(i) >= 1

\* C5: write and resize of an id that is not in the session map return the
\* session-not-found error at once, write nothing to any PTY, resize nothing,
\* emit no event and leave both registry maps and every session as they are.
C5_AbsentWriteResizeNotFound ==
    [][\A c \in Callers, s \in Ids :
          ((Starts(c, "write", s) \/ Starts(c, "resize", s)) /\ get_session(s) = NoInst) =>
              /\ callRes'[c] = NotFound(s)
              /\ callPc'[c] = "idle"
              /\ UNCHANGED <<sessions, session_project_paths, termEvents, actEvents,
                             child, lock, ptyIn, ptyOut, winSize>>]_vars

\* A write and a resize of an id were both answered with not-found after the
\* natural-exit cleanup had removed the session.
C5_Witness ==
    \E i \in Inst :
        /\ removedSince[i]
        /\ emPc[i] = "done"
        /\ callOp["c1"] = "write" /\ callSid["c1"] = sid[i] /\ callRes["c1"] = NotFound(sid[i])
        /\ callOp["c2"] = "resize" /\ callSid["c2"] = sid[i] /\ callRes["c2"] = NotFound(sid[i])
        /\ ptyIn[i] = <<>>
        /\ winSize[i] = 80

\* The transition table of the activity monitor, case by case.
ActivityTable(session_id, was, signal) ==
    CASE ~was /\ signal = "Data"         -> <<TRUE, ActivityEvent(session_id, TRUE)>>
      [] was /\ signal = "Data"          -> <<TRUE, NoEvent>>
      [] was /\ signal = "Timeout"       -> <<FALSE, ActivityEvent(session_id, FALSE)>>
      [] ~was /\ signal = "Timeout"      -> <<FALSE, NoEvent>>
      [] was /\ signal = "Disconnected"  -> <<FALSE, ActivityEvent(session_id, FALSE)>>
      [] ~was /\ signal = "Disconnected" -> <<FALSE, NoEvent>>

\* C6: every transition the activity monitor makes with update_activity_state
\* is the one of the table for its (state, signal) pair, and every activity
\* event emitted carries the id of the session of that monitor.
C6_ActivityTable ==
    \A i \in Inst :
        /\ lastAct[i].op = "update" =>
               LET row == ActivityTable(sid[i], lastAct[i].was, lastAct[i].signal)
               IN  /\ lastAct[i].next = row[1]
                   /\ lastAct[i].event = row[2]
                   /\ active[i] = row[1]
        /\ \A k \in 1..Len(actEvents[i]) : actEvents[i][k].session_id = sid[i]

\* The monitor of session "s2" was active when it saw the disconnect: it went
\* inactive and emitted activity(false) for "s2" as its second event.
C6_Witness ==
    \E i \in Inst :
        /\ sid[i] = "s2"
        /\ lastAct[i].op = "update"
        /\ lastAct[i].was /\ lastAct[i].signal = "Disconnected"
        /\ acPc[i] = "done"
        /\ actEvents[i] = <<ActivityEvent("s2", TRUE), ActivityEvent("s2", FALSE)>>

\* C7: in every reachable state an id is in the session map exactly when it
\* is in the project-path map.
C7_SameKeySets ==
    \A s \in Ids : (sessions[s] # NoInst) <=> (session_project_paths[s] # NoPath)

\* The threads that are between the start and the end of a write_all on the
\* PTY of instance h.
Writers(h) ==
    {c \in Callers : callPc[c] = "write_all" /\ callH[c] = h}
        \cup (IF stPc[h] = "write" THEN {"startup"} ELSE {})

\* C8: at most one thread at a time is inside a write_all on a session's PTY,
\* and in the PTY input every byte of a write but the first comes directly
\* after the byte before it of the same write.
C8_WritesNeverTorn ==
    \A h \in Inst :
        /\ Cardinality(Writers(h)) <= 1
        /\ \A k \in 1..Len(ptyIn[h]) :
               ptyIn[h][k][2] > 1 =>
                   /\ k > 1
                   /\ ptyIn[h][k - 1] = <<ptyIn[h][k][1], ptyIn[h][k][2] - 1>>

\* One caller is in the middle of its write while another write and the
\* startup command wait for the mutex of the same session.
C8_Witness ==
    \E h \in Inst :
        /\ callPc["c1"] = "write_all" /\ callH["c1"] = h /\ callN["c1"] = 1
        /\ callPc["c2"] = "write_lock" /\ callH["c2"] = h
        /\ stPc[h] = "sleep"
        /\ ptyIn[h] = <<<<"c1", 1>>>>

\* The pipeline of session a is stalled: its reader is blocked in send on a
\* full channel (its consumer is slow), or a caller holds its session mutex.
Stalled(a) ==
    \/ rdPc[a] = "blocked" /\ Len(chan[a]) = PTY_DATA_CHANNEL_CAPACITY
    \/ lock[a] \in Callers

Exited(b) == child[b] \in {"ok", "failed"}

\* Every step of the reader, emitter and activity threads of session b that
\* the threads' own state allows can be taken.
PipelineReady(b) ==
    /\ (rdPc[b] = "read" /\ ptyOut[b] # <<>>) => ENABLED ReaderRead(b, 1)
    /\ (rdPc[b] = "read" /\ Exited(b)) => ENABLED ReaderStop(b)
    /\ rdPc[b] = "send" => ENABLED ReaderSend(b)
    /\ (emPc[b] = "recv" /\ (chan[b] # <<>> \/ rdPc[b] = "done")) => ENABLED EmitterRecv(b)
    /\ emPc[b] = "drain" => ENABLED EmitterDrain(b, FALSE)
    /\ emPc[b] = "coalesce" => ENABLED EmitterCoalesce(b)
    /\ emPc[b] = "pulse" => ENABLED EmitterPulse(b)
    /\ emPc[b] = "emit" => ENABLED EmitterEmit(b)
    /\ emPc[b] = "flush" => ENABLED EmitterFlush(b)
    /\ emPc[b] = "remove_session" => ENABLED EmitterRemoveSession(b)
    /\ emPc[b] = "remove_path" => ENABLED EmitterRemovePath(b)
    /\ (emPc[b] = "lock" /\ lock[b] = Free) => ENABLED EmitterLock(b)
    /\ (emPc[b] = "wait" /\ Exited(b)) => ENABLED EmitterWait(b)
    /\ emPc[b] = "exit" => ENABLED EmitterExit(b)
    /\ acPc[b] = "recv" => ENABLED ActivityStep(b, RecvTimeout(b))

\* Every step of write, resize and kill on session b that the call's own
\* position and the mutex of b allow can be taken.
CallsReady(b) ==
    \A c \in Callers :
        /\ CanCall(c) =>
               /\ ENABLED WriteGet(c, sid[b])
               /\ ENABLED ResizeGet(c, sid[b], 120)
               /\ ENABLED KillRemoveSession(c, sid[b])
        /\ callH[c] = b =>
               /\ (callPc[c] = "write_lock" /\ lock[b] = Free) => ENABLED WriteLock(c)
               /\ callPc[c] = "write_all" => ENABLED WriteAll(c, FALSE)
               /\ (callPc[c] = "resize_lock" /\ lock[b] = Free) => ENABLED ResizeApply(c, FALSE)
               /\ callPc[c] = "kill_remove_path" => ENABLED KillRemovePath(c)
               /\ (callPc[c] = "kill_lock" /\ lock[b] = Free) => ENABLED KillLock(c)
               /\ callPc[c] = "kill_child" => ENABLED KillChild(c)
               /\ callPc[c] = "kill_emit" => ENABLED KillEmit(c)

\* C9: whenever the pipeline of a session a is stalled, every step of the
\* reader, the emitter and the activity monitor of any other session b, and of
\* write, resize and kill on b, is enabled as soon as b's own state allows
\* it: nothing of a (its channel, its mutex, its threads) holds b back.
C9_SessionsIsolated ==
    \A a \in Inst, b \in Inst :
        (a # b /\ Stalled(a) /\ Inserted(b)) => (PipelineReady(b) /\ CallsReady(b))

\* Session "s1" is stalled (reader blocked on the full channel, nothing
\* delivered, caller c1 in the middle of a write) and session "s2", spawned
\* after the stall began, has delivered all its output and its exit event and
\* has taken a whole write.
C9_Witness ==
    /\ rdPc[1] = "blocked" /\ Len(chan[1]) = PTY_DATA_CHANNEL_CAPACITY
    /\ termEvents[1] = <<>>
    /\ callPc["c1"] = "write_all" /\ lock[1] = "c1"
    /\ Delivered(termEvents[2]) = <<97, 97>>
    /\ emPc[2] = "done" /\ acPc[2] = "done"
    /\ callOp["c2"] = "write" /\ callRes["c2"] = "Ok" /\ Len(ptyIn[2]) = WriteLen

\* The chunk the reader is handing to send_output_chunk, if any.
InFlight(i) == IF rdPc[i] \in {"send", "blocked"} THEN <<pend[i]>> ELSE <<>>

\* C10: the data channel never holds more than its capacity; a reader blocked
\* on a full channel of a living emitter cannot send and can as soon as a slot
\* is free; and while the receiver exists the chunks handed to
\* send_output_chunk are, in order, the chunks received, then the chunks
\* queued, then the chunk being sent: none is dropped or reordered.
C10_BackpressureWithoutLoss ==
    \A i \in Inst :
        /\ Len(chan[i]) <= PTY_DATA_CHANNEL_CAPACITY
        /\ (rdPc[i] = "blocked" /\ DataRxAlive(i)) =>
               (ENABLED ReaderBlockedSend(i) <=> Len(chan[i]) < PTY_DATA_CHANNEL_CAPACITY)
        /\ DataRxAlive(i) => handed[i] = received[i] \o chan[i] \o InFlight(i)

\* The reader is blocked in send on a full channel while the emitter lives.
C10_Witness ==
    \E i \in Inst :
        /\ rdPc[i] = "blocked"
        /\ Len(chan[i]) = PTY_DATA_CHANNEL_CAPACITY
        /\ emPc[i] = "recv"
        /\ Len(handed[i]) = PTY_DATA_CHANNEL_CAPACITY + 1

\* C11: natural exit always completes.  Once the reader of a session has left
\* its loop (end of stream or read error) and no kill is issued, fair
\* scheduling leads to a state where the id is in neither registry map and a
\* terminal:exit event of the session has been emitted.
C11_NaturalExitCompletes ==
    \A i \in Inst :
        (rdPc[i] = "done") ~> (/\ sessions[sid[i]] = NoInst
                               /\ session_project_paths[sid[i]] = NoPath
                               /\ ExitCount(i) >= 1)

\* What a spawn call that returned an error has left behind: nothing.
NoTrace(i) ==
    /\ rdPc[i] = "off" /\ emPc[i] = "off" /\ acPc[i] = "off" /\ stPc[i] = "off"
    /\ termEvents[i] = <<>> /\ actEvents[i] = <<>>
    /\ sessions[sid[i]] # i
    /\ (\A j \in Inst \ {i} : sid[j] = sid[i] => ~Inserted(j))
           => /\ sessions[sid[i]] = NoInst
              /\ session_project_paths[sid[i]] = NoPath

\* C12: a failed spawn leaves no trace.  The step in which spawn returns an
\* error changes neither registry map, and from then on none of the reader,
\* emitter, activity and startup threads of that call exists, no event of it
\* is emitted, and its id is in neither map unless another spawn put it there.
C12_FailedSpawnLeavesNoTrace ==
    [][\A i \in Inst :
          spRes'[i] \in SpawnErrors =>
              /\ NoTrace(i)'
              /\ spRes[i] \notin SpawnErrors => UNCHANGED <<sessions, session_project_paths>>]_vars

\* A spawn failed after its shell was started while another session lives on.
C12_Witness ==
    /\ spRes[2] = "Failed to get PTY reader"
    /\ child[2] = "running"
    /\ sid[2] = "s2"
    /\ sessions["s1"] = 1
    /\ sessions["s2"] = NoInst /\ session_project_paths["s2"] = NoPath
    /\ rdPc[1] = "read"

\* C13: write, resize and kill never wait on a pipeline thread.  No caller
\* stands before the lock() of a session mutex that the emitter thread of
\* that session holds (the reader and the activity thread never take it).
C13_CallersNeverWaitOnPipeline ==
    \A c \in Callers :
        callPc[c] \in {"write_lock", "resize_lock", "kill_lock"}
            => lock[callH[c]] # "emitter"

\* The thread t is past a registry statement: it writes to the PTY, resizes,
\* kills or waits on the child, emits an event, or waits for or holds a
\* session mutex (callers and emitter), or runs the rest of spawn.
Busy(t) ==
    \/ \E c \in Callers :
           /\ t = c
           /\ callPc[c] \in {"write_lock", "write_all", "resize_lock",
                             "kill_lock", "kill_child", "kill_emit"}
    \/ \E i \in Inst :
           /\ t = EmitterT(i)
           /\ emPc[i] \notin {"remove_session", "remove_path"}
    \/ \E i \in Inst :
           /\ t = SpawnT(i)
           /\ spPc[i] \notin {"insert_session", "insert_path"}

\* C14: a registry map lock is never held across I/O or a long wait.  In
\* every state, a thread that holds the guard of the session map or of the
\* project-path map is at a statement that uses that map, not writing,
\* resizing, killing, waiting on a child, emitting, or at a session lock().
C14_RegistryLockNeverAcrossIO ==
    \A m \in RegistryMaps : guard[m] # Free => ~Busy(guard[m])

\* A caller holds the guard of the path map in kill while another caller is
\* in the middle of a write to the PTY and the emitter is at its cleanup.
C14_Witness ==
    /\ guard["session_project_paths"] = "c1"
    /\ callPc["c1"] = "kill_remove_path"
    /\ callPc["c2"] = "write_all"
    /\ emPc[1] = "remove_session"

\* C15: after kill(session_id) has returned for a session that was registered
\* when kill started (kill found its handle), the id is in neither registry
\* map, so that write and resize find no session and
\* project_path_for_session finds no path.  SpecCalls spawns one session
\* only, so nothing registers the id anew.
C15_KilledIdAbsentFromBothMaps ==
    \A c \in Callers :
        (/\ callPc[c] = "idle"
         /\ callOp[c] = "kill"
         /\ callRes[c] = "Ok"
         /\ callH[c] # NoInst)
            => /\ get_session(callSid[c]) = NoInst
               /\ project_path_for_session(callSid[c]) = NoPath

\* C16: signal_foreground(session_id) is an operation of the session manager;
\* called with an absent id it returns the not-found error, otherwise it
\* returns Ok whether or not the children of the shell could be enumerated
\* and signalled.
C16_SignalForeground ==
    /\ "signal_foreground" \in ManagerOperations
    /\ \A c \in Callers :
           (callOp[c] = "signal_foreground" /\ callPc[c] = "idle")
               => callRes[c] = IF callH[c] = NoInst THEN NotFound(callSid[c]) ELSE "Ok"

\* The events of a log that precede its first terminal:exit event.
RECURSIVE BeforeExit(_)
BeforeExit(events) ==
    IF events = <<>> \/ IsExit(Head(events)) THEN <<>>
    ELSE <<Head(events)>> \o BeforeExit(Tail(events))

\* C17: on the natural-exit path every chunk the reader enqueued is emitted
\* before the exit event.  Until the emitter has flushed, the session is
\* registered and has no exit event; once it has flushed, channel and batch
\* are empty and the data emitted is all the chunks handed over, in order;
\* and the data events that precede the exit event already carry all of it.
C17_FlushBeforeExit ==
    \A i \in Inst :
        /\ (emPc[i] # "off" /\ ~Flushed(i)) =>
               /\ sessions[sid[i]] = i
               /\ session_project_paths[sid[i]] = resolved[i]
               /\ ExitCount(i) = 0
        /\ Flushed(i) =>
               /\ chan[i] = <<>> /\ batch[i] = <<>>
               /\ Delivered(termEvents[i]) = Flatten(handed[i])
        /\ ExitCount(i) >= 1 =>
               Delivered(BeforeExit(termEvents[i])) = Flatten(handed[i])

\* Two chunks were enqueued and emitted one by one before the reader
\* stopped; the exit event follows them.
C17_Witness ==
    /\ emPc[1] = "done"
    /\ handed[1] = <<<<97>>, <<97>>>>
    /\ termEvents[1] = <<DataEvent(sid[1], <<97>>), DataEvent(sid[1], <<97>>),
                         ExitEvent(sid[1], 0)>>
    /\ pulsesSent[1] = 2

\* C18: the exit event is terminal for the output of a session.  In the
\* events emitted for a session no terminal:data event comes after a
\* terminal:exit event, also when a kill races with pending output.
C18_NoDataAfterExit ==
    \A i \in Inst :
        \A k \in 1..Len(termEvents[i]) :
            IsExit(termEvents[i][k]) =>
                \A l \in (k + 1)..Len(termEvents[i]) : ~IsData(termEvents[i][l])

\* C19: a registry entry is removed only by the cleanup of the session
\* instance that inserted it.  When the emitter of instance i runs its two
\* removals while its id is registered to a later instance j, the entries of
\* j stay in the session map and in the project-path map.
C19_CleanupRemovesOwnEntryOnly ==
    [][\A i \in Inst : \A j \in Inst \ {i} :
          /\ (/\ emPc[i] = "remove_session" /\ emPc'[i] = "remove_path"
              /\ sessions[sid[i]] = j)
                 => sessions'[sid[i]] = j
          /\ (/\ emPc[i] = "remove_path" /\ emPc'[i] = "lock"
              /\ sessions[sid[i]] = j
              /\ spPc[j] \in {"threads", "return", "done"}
              /\ session_project_paths[sid[i]] = resolved[j])
                 => session_project_paths'[sid[i]] = resolved[j]]_vars

\* C20: when the activity channel is closed (the emitter thread has ended)
\* and drained, the activity thread takes the Disconnected signal: it emits
\* one activity(false) event if it was active and nothing if it was inactive,
\* ends up inactive and terminates; a terminated activity thread stays
\* terminated and emits nothing more.
C20_DisconnectEndsActivityThread ==
    [][\A i \in Inst :
          /\ (lastAct[i].op = "update" /\ lastAct[i].signal = "Disconnected")
                 => acPc[i] = "done"
          /\ (acPc[i] = "recv" /\ lastAct'[i].op = "update"
                /\ lastAct'[i].signal = "Disconnected")
                 => /\ emPc[i] = "done" /\ pulses[i] = 0
                    /\ acPc'[i] = "done"
                    /\ ~active'[i]
                    /\ actEvents'[i] = IF active[i]
                                         THEN Append(actEvents[i], ActivityEvent(sid[i], FALSE))
                                         ELSE actEvents[i]
          /\ acPc[i] = "done"
                 => /\ acPc'[i] = "done"
                    /\ actEvents'[i] = actEvents[i]
                    /\ lastAct'[i] = lastAct[i]]_vars

\* The monitor had gone inactive by a timeout before the channel closed: on
\* the disconnect it emitted nothing and terminated.
C20_Witness ==
    /\ acPc[1] = "done"
    /\ lastAct[1].op = "update"
    /\ lastAct[1].signal = "Disconnected" /\ ~lastAct[1].was
    /\ lastAct[1].event = NoEvent
    /\ actEvents[1] = <<ActivityEvent(sid[1], TRUE), ActivityEvent(sid[1], FALSE)>>
    /\ emPc[1] = "done"

\* The payloads of the data events of a log, one per event, in order.
RECURSIVE Payloads(_)
Payloads(events) ==
    IF events = <<>> THEN <<>>
    ELSE IF IsData(Head(events)) THEN <<Head(events).data>> \o Payloads(Tail(events))
    ELSE Payloads(Tail(events))

\* The number of leading chunks whose concatenation is data, 0 when no
\* number of whole chunks gives data.
RECURSIVE WholeChunks(_, _, _)
WholeChunks(data, chunks, n) ==
    IF n > Len(chunks) THEN 0
    ELSE IF Flatten(Take(chunks, n)) = data THEN n
    ELSE WholeChunks(data, chunks, n + 1)

\* The payloads cut the chunks into runs of one or more whole chunks, in
\* order, and what is left over after the last payload is rest.
RECURSIVE CutsIntoRuns(_, _, _)
CutsIntoRuns(payloads, chunks, rest) ==
    IF payloads = <<>> THEN Flatten(chunks) = rest
    ELSE LET n == WholeChunks(Head(payloads), chunks, 1)
         IN  /\ Head(payloads) # <<>>
             /\ n >= 1
             /\ CutsIntoRuns(Tail(payloads), Drop(chunks, n), rest)

\* C21: every terminal:data event carries a non-empty batch that is the
\* concatenation, in channel order, of one or more whole chunks received; the
\* chunks received so far are exactly those of the events followed by those
\* in the batch, so no chunk is split or repeated; and the batch is empty
\* right after each emission.
C21_BatchesAreWholeChunks ==
    [][\A i \in Inst :
          /\ CutsIntoRuns(Payloads(termEvents[i]), received[i], batch[i])'
          /\ Len(Payloads(termEvents[i])') > Len(Payloads(termEvents[i]))
                 => batch'[i] = <<>>]_vars

\* One event carries two chunks that were drained together, a later event
\* a third chunk.
C21_Witness ==
    /\ received[1] = <<<<97>>, <<97>>, <<97>>>>
    /\ Payloads(termEvents[1]) = <<<<97, 97>>, <<97>>>>
    /\ batch[1] = <<>>

\* Number of terminal:data events emitted for the session of instance i.
DataCount(i) == Len(Payloads(termEvents[i]))

\* C22: each terminal:data emission is paired with one activity pulse sent
\* right before it.  The pulses sent equal the data events emitted, plus one
\* exactly while the emitter stands between the pulse and its emission, where
\* the emission is the step the emitter takes next.
C22_OnePulsePerEmission ==
    \A i \in Inst :
        /\ pulsesSent[i] = DataCount(i) + (IF emPc[i] = "emit" THEN 1 ELSE 0)
        /\ emPc[i] = "emit" => batch[i] # <<>> /\ ENABLED EmitterEmit(i)

\* The second pulse is sent, the second emission is about to follow.
C22_Witness ==
    /\ emPc[1] = "emit"
    /\ pulsesSent[1] = 2
    /\ DataCount(1) = 1

\* bytes is empty or the beginning of one UTF-8 character that its missing
\* bytes can still complete.
IncompleteChar(bytes) ==
    \/ bytes = <<>>
    \/ /\ Utf8CharWidth(bytes[1]) > Len(bytes)
       /\ Len(bytes) >= 2 => SecondOk(bytes[1], bytes[2])
       /\ \A j \in 3..Len(bytes) : IsCont(bytes[j])

\* C23: after every iteration of the reader loop the carry-over holds only
\* the incomplete trailing bytes of one UTF-8 character, at most 3 bytes,
\* whatever the PTY produced; no whole valid character is held back in it.
C23_CarryIsOneIncompleteChar ==
    \A i \in Inst :
        /\ Len(carry[i]) <= 3
        /\ IncompleteChar(carry[i])
        /\ ValidContent(carry[i]) = <<>>

\* C24: all worker threads of a session terminate once the session ends.
\* The reader and the emitter are never blocked on each other (the reader in
\* send on a full channel, the emitter in recv on an empty one), and once the
\* reader has stopped, fair scheduling leads to a state where the emitter
\* thread and the activity thread have ended.
C24_WorkersTerminate ==
    /\ [](\A i \in Inst : ~(/\ rdPc[i] = "blocked" /\ ~ENABLED ReaderBlockedSend(i)
                             /\ emPc[i] = "recv" /\ ~ENABLED EmitterRecv(i)))
    /\ \A i \in Inst : (rdPc[i] = "done") ~> (emPc[i] = "done" /\ acPc[i] = "done")

\* C25: send_output_chunk returns false exactly when the receiver of the
\* channel no longer exists.  A send that ends with the reader stopped (false)
\* found the receiver gone and enqueued nothing; a send that ends with the
\* reader back at read (true) found it alive and enqueued the chunk; with the
\* receiver gone a send can only end false, with it alive never.
C25_FalseIffReceiverGone ==
    [][\A i \in Inst :
          (rdPc[i] \in {"send", "blocked"} /\ rdPc'[i] # rdPc[i]) =>
              /\ rdPc'[i] = "done"
                     => ~DataRxAlive(i) /\ chan'[i] = chan[i]
              /\ rdPc'[i] = "read"
                     => DataRxAlive(i) /\ chan'[i] = Append(chan[i], pend[i])
              /\ rdPc'[i] = "blocked"
                     => DataRxAlive(i) /\ chan'[i] = chan[i]
                        /\ Len(chan[i]) = PTY_DATA_CHANNEL_CAPACITY
              /\ ~DataRxAlive(i) => rdPc'[i] = "done"]_vars

\* The receiver was dropped while the reader was blocked in send on a full
\* channel: the send returned false, the chunk stayed out, the reader stopped.
C25_Witness ==
    /\ rdPc[1] = "done"
    /\ emPc[1] = "done"
    /\ Len(chan[1]) = PTY_DATA_CHANNEL_CAPACITY
    /\ Len(handed[1]) = PTY_DATA_CHANNEL_CAPACITY + 1
    /\ received[1] = <<>>

\* The path SpecPath expects under an id: the root git printed for "s1", the
\* requested directory itself for "s2".
ExpectedPath(s) == IF s = "s1" THEN "/repo" ELSE "/w/sub"

\* No removal of the id is under way: no kill is between its statements and
\* the emitter's cleanup is not between its two removals.
NoRemovalUnderWay == (\A c \in Callers : callPc[c] = "idle") /\ emPc[1] # "remove_path"

\* C26: project_path_for_session(id) is None before the spawn of the id; from
\* the return of a successful spawn until the removal of the session it is the
\* root git resolved for the requested directory, or the requested directory
\* when git resolved none; after the removal it is None again.
C26_ProjectPathOfSession ==
    \A s \in Ids :
        /\ (nSpawn = 0 \/ sid[1] # s) => project_path_for_session(s) = NoPath
        /\ (nSpawn = 1 /\ sid[1] = s /\ spRes[1] = "Ok" /\ get_session(s) = 1)
               => project_path_for_session(s) = ExpectedPath(s)
        /\ (nSpawn = 1 /\ sid[1] = s /\ spRes[1] = "Ok" /\ get_session(s) = NoInst
               /\ NoRemovalUnderWay)
               => project_path_for_session(s) = NoPath

\* C27: the activity events of a session alternate, the first being
\* activity(true): the k-th event carries the flag true exactly when k is odd,
\* every event carries the id of the session, and once the activity thread
\* has ended the last event, if there is one, is activity(false).
C27_ActivityEventsAlternate ==
    \A i \in Inst :
        /\ \A k \in 1..Len(actEvents[i]) :
               /\ actEvents[i][k].active = (k % 2 = 1)
               /\ actEvents[i][k].session_id = sid[i]
        /\ acPc[i] = "done" => Len(actEvents[i]) % 2 = 0

\* Output, a quiet window, output again and the end of the emitter: true,
\* false, true, false, and the thread has ended.
C27_Witness ==
    /\ acPc[1] = "done"
    /\ Len(actEvents[1]) = 4
    /\ lastAct[1].signal = "Disconnected"
    /\ lastAct[1].event # NoEvent

\* The direct calls of the dispatcher so far: enqueues, takes, takes that
\* yielded a payload.
IsEnqueue(k) == dispatchLog[k].op = "enqueue_request"
IsTake(k) == dispatchLog[k].op = "take_payload_if_latest"
Yielded(k) == IsTake(k) /\ dispatchLog[k].payload # NoPayload
SamePath(j, k) == dispatchLog[j].project_path = dispatchLog[k].project_path

\* Call j is the latest enqueue before call k for the path of k, and its entry
\* is still pending at k: no take after j has consumed it.
PendingFrom(j, k) ==
    /\ j < k /\ IsEnqueue(j) /\ SamePath(j, k)
    /\ \A m \in (j + 1)..(k - 1) : SamePath(m, k) => ~IsEnqueue(m) /\ ~Yielded(m)

\* The parts of C28 about an entry while it is pending: generations grow from
\* enqueue to enqueue; a take yields a payload exactly when it names the
\* generation of the latest enqueue, whatever takes with other generations
\* came before, and the payload carries that enqueue's source and trigger.
WhilePending ==
    \A k \in 1..Len(dispatchLog) :
        /\ IsEnqueue(k) =>
               \A j \in 1..(k - 1) :
                   PendingFrom(j, k) => dispatchLog[k].generation > dispatchLog[j].generation
        /\ IsTake(k) =>
               /\ \A j \in 1..(k - 1) :
                      PendingFrom(j, k) =>
                          IF dispatchLog[k].generation = dispatchLog[j].generation
                          THEN dispatchLog[k].payload =
                                   ProjectRefreshRequestedEvent(dispatchLog[k].project_path,
                                       dispatchLog[j].source, dispatchLog[j].trigger)
                          ELSE dispatchLog[k].payload = NoPayload
               /\ Yielded(k) => \E j \in 1..(k - 1) : PendingFrom(j, k)

\* C28: enqueue_request returns growing generations for a path while its
\* entry is pending; only a take with the latest generation yields a payload,
\* with the source and trigger of the latest request; a take with an older
\* generation yields nothing and leaves the entry pending; and a generation
\* of a path yields a payload at most once.
C28_LatestGenerationTakesOnce ==
    /\ WhilePending
    /\ \A j, k \in 1..Len(dispatchLog) :
           (j < k /\ Yielded(j) /\ Yielded(k) /\ SamePath(j, k))
               => dispatchLog[j].generation # dispatchLog[k].generation

\* Request r is the most recent request_refresh for its project path.
MostRecent(r) ==
    \A q \in (r + 1)..Len(reqs) :
        reqs[q].timer = "none" \/ reqs[q].project_path # reqs[r].project_path

\* C29: when the timer thread of request r wakes up and takes the pending
\* entry of its path (it goes on to emit, and the entry is gone), r is still
\* the most recent request for that path: no timer emits for a later request
\* or consumes a later request's entry.
C29_OnlyLatestTimerEmits ==
    [][\A r \in 1..Len(reqs) :
          (/\ reqs[r].timer = "sleep"
           /\ reqs'[r].timer # "sleep"
           /\ reqs'[r].timer = "emit" \/ pending' # pending)
              => MostRecent(r)]_vars

\* The poll of the same project before poll k (0: there is none).
PrevPoll(k) ==
    IF \E j \in 1..(k - 1) : pollLog[j].project_path = pollLog[k].project_path
    THEN CHOOSE j \in 1..(k - 1) :
             /\ pollLog[j].project_path = pollLog[k].project_path
             /\ \A m \in (j + 1)..(k - 1) : pollLog[m].project_path # pollLog[k].project_path
    ELSE 0

\* Poll k saw the pull request go from a state other than MERGED, recorded by
\* the poll of the project before it, to MERGED.
BecameMerged(k, pr) ==
    /\ pr.state = "MERGED"
    /\ PrevPoll(k) # 0
    /\ \E m \in 1..Len(pollLog[PrevPoll(k)].prs) :
           /\ pollLog[PrevPoll(k)].prs[m].number = pr.number
           /\ pollLog[PrevPoll(k)].prs[m].state # "MERGED"

RECURSIVE BranchesThatBecameMerged(_, _)
BranchesThatBecameMerged(k, prs) ==
    IF prs = <<>> THEN <<>>
    ELSE (IF BecameMerged(k, Head(prs)) THEN <<Head(prs).head_ref_name>> ELSE <<>>)
             \o BranchesThatBecameMerged(k, Tail(prs))

\* C30: every poll reports the branches of exactly the pull requests that the
\* poll of the project before it recorded in a state other than MERGED and
\* that are MERGED now: nothing for a pull request seen for the first time,
\* nothing again while it stays MERGED.
C30_MergedReportedOnTransition ==
    \A k \in 1..Len(pollLog) :
        pollLog[k].merged_branches = BranchesThatBecameMerged(k, pollLog[k].prs)

\* The unit test's run: pull request 1 of "/repo" polled OPEN, MERGED,
\* MERGED, reported by the second poll only.
C30_Witness ==
    /\ Len(pollLog) = 3
    /\ \A k \in 1..3 : pollLog[k].project_path = <<"/repo">>
    /\ pollLog[1].prs = <<GitHubPR(1, "OPEN")>>
    /\ pollLog[2].prs = <<GitHubPR(1, "MERGED")>>
    /\ pollLog[3].prs = <<GitHubPR(1, "MERGED")>>
    /\ pollLog[2].merged_branches = <<"feature/x">>
    /\ pollLog[3].merged_branches = <<>>

\* The paths of the last set_tracked_projects call, normalized.
TrackedNow == {p \in PollProjects : \E k \in 1..Len(tracked) : Trim(tracked[k]) = p}

\* C31: every project path of the most recent set_tracked_projects call has a
\* persistent entry in the poller's project map, whatever the worker thread
\* and request_refresh have done since.
C31_TrackedStayPersistent ==
    \A p \in TrackedNow : projects[p].present /\ projects[p].persistent

\* The normalized desired set of the last sync_projects call.
DesiredNow == lastWatcherCall.desired

\* C32: when a sync_projects call that no other call of the GitWatcher
\* interrupted has returned and no later call has begun, every watched path is in the normalized desired
\* set, and the paths that were watched before and are desired are still
\* watched.
C32_SyncLeavesOnlyDesired ==
    (lastWatcherCall.op = "sync_projects" /\ lastWatcherCall.alone) =>
        /\ watched_paths \subseteq DesiredNow
        /\ (lastWatcherCall.current \cap DesiredNow) \subseteq watched_paths

\* C33: every terminal:exit event of a session, emitted by kill or by the
\* emitter's cleanup, is emitted after the shell has gone and carries exit
\* code 0 if wait returned a success status and 1 otherwise (a non-success
\* status or an error), and no signal.
C33_ExitCodeIsBinary ==
    \A i \in Inst : \A k \in 1..Len(termEvents[i]) :
        IsExit(termEvents[i][k]) =>
            /\ child[i] # "running"
            /\ termEvents[i][k].exit_code = (IF child[i] = "ok" THEN 0 ELSE 1)
            /\ termEvents[i][k].signal = "None"

\* The wait of the emitter's cleanup failed and its exit event carries 1.
C33_Witness ==
    /\ child[1] = "error"
    /\ emPc[1] = "done"
    /\ termEvents[1] # <<>>
    /\ termEvents[1][Len(termEvents[1])] = ExitEvent("s1", 1)

\* The word stands in the command as a whole token: no token character right
\* before it and none right after it.
HasWholeToken(command, word) ==
    \E a \in 1..Len(command) :
        LET b == a + Len(word) - 1
        IN  /\ b <= Len(command)
            /\ SubSeq(command, a, b) = word
            /\ a = 1 \/ ~IsTokenChar(command[a - 1])
            /\ b = Len(command) \/ ~IsTokenChar(command[b + 1])

\* C34: should_emit_project_refresh_for_hook returns true exactly for a
\* PostToolUse hook whose tool is Write, Edit or NotebookEdit, or whose tool
\* is Bash with a command that has git or gh as a whole token; any other
\* event name or tool, and a Bash hook without a command, give false.
C34_RefreshExactlyForMutatingHooks ==
    hookCall # NoCall =>
        hookCall.result =
            (/\ hookCall.hook.hook_event_name = "PostToolUse"
             /\ \/ hookCall.hook.tool_name \in {"Write", "Edit", "NotebookEdit"}
                \/ /\ hookCall.hook.tool_name = "Bash"
                   /\ hookCall.hook.command # NoCommand
                   /\ \/ HasWholeToken(hookCall.hook.command, <<"g", "i", "t">>)
                      \/ HasWholeToken(hookCall.hook.command, <<"g", "h">>))

\* A Bash hook whose command has gh between other characters gives true.
C34_Witness ==
    /\ hookCall # NoCall
    /\ hookCall.hook.tool_name = "Bash"
    /\ hookCall.hook.command = <<"-", "g", "h", " ">>
    /\ hookCall.result

====
